---- MODULE Spec2Model ----
\* focusDB (py16db/run_all.py): the resumable per-accession pipeline of main(),
\* its status files (checkpoint sets), the persisted config (parameter
\* fingerprint), the riboSeed pool and the SUMMARY ledger.
EXTENDS Integers, Sequences, FiniteSets, TLC

\* ------------------------------------------------------------------ bounds
\* Longest persisted config file, in lines, that the config-file
\* specification draws as the file left by an earlier invocation.
MaxLines == 3

\* the most lines of a kraken2 report
MaxReport == 3

\* ------------------------------------------------------- program constants
\* --mincov default
mincov == 15

None == "None"
\* a file that does not exist
NoFile == <<>>

TAXONOMY == "TAXONOMY"
TRIMMED == "TRIMMED"
DOWNSAMPLED == "DOWNSAMPLED"
RIBOSEED_COMPLETE == "RIBOSEED COMPLETE"
Markers == {TAXONOMY, TRIMMED, DOWNSAMPLED, RIBOSEED_COMPLETE}

\* the accessions a batch is made of
Accessions == {"A", "B"}

\* ------------------------------------------------------------ command line
\* --maxdist is a float: its values are held in hundredths (5 is 0.05).
MaxdistValues == {5, 10}
MaxcovValues == {50, 100}
Subassemblers == {"spades", "skesa"}

\* --njobs, the size of the pool; 1 is its default
NjobsValues == {1, 2}

ArgSpace ==
    [maxdist : MaxdistValues, subassembler : Subassemblers,
     maxcov : MaxcovValues, redo_assembly : BOOLEAN, njobs : {1}]

\* str() of an argument value, as "{}".format writes it and as different_args
\* coerces it: a float prints with its decimal point, an int without.
str(arg, v) ==
    CASE arg = "maxdist" -> (IF v = 5 THEN "0.05" ELSE "0.1")
      [] arg = "maxcov" -> (IF v = 50 THEN "50" ELSE "100")
      [] OTHER -> v

\* ------------------------------------------------------------ status files
\* parse_status_file: the lines of the file; a missing file reads as nothing.
\* The file is held as the set of its lines: update_status_file rewrites it
\* from set(statuses), whose order carries no meaning.
parse_status_file(file) == file

\* update_status_file(path, to_remove, message): read every line, append the
\* message if there is one, write back the distinct lines not in to_remove.
update_status_file(file, to_remove, message) ==
    LET statuses == IF message = None THEN parse_status_file(file)
                    ELSE parse_status_file(file) \cup {message}
    IN  {s \in statuses : s \notin to_remove}

\* ------------------------------------------------------------- config file
\* A config file exists or not, and holds a sequence of lines; a line is held
\* as the sequence of fields that line.strip().split(":") yields.
NoConfig == [exists |-> FALSE, lines |-> <<>>]
File(lines) == [exists |-> TRUE, lines |-> lines]
args_to_write == <<"maxdist", "subassembler", "maxcov">>
RecognizedKeys == {args_to_write[k] : k \in DOMAIN args_to_write}

\* (a write_this_config that leaves the last recognized key out)
write_this_config_two_keys(a) ==
    File([k \in 1..2 |-> <<args_to_write[k], str(args_to_write[k],
                                                 a[args_to_write[k]])>>])

\* write_this_config: one "key:value" line per recognized key, in order.
write_this_config(a) ==
    File([k \in DOMAIN args_to_write |->
             <<args_to_write[k], str(args_to_write[k], a[args_to_write[k]])>>])

\* old_config_dict after the reading loop: for a key, the value of its last line.
RECURSIVE old_config_dict(_, _)
old_config_dict(lines, key) ==
    IF lines = <<>> THEN None
    ELSE LET last == lines[Len(lines)]
         IN  IF last[1] = key THEN last[2]
             ELSE old_config_dict(SubSeq(lines, 1, Len(lines) - 1), key)

\* (a different_args that does not look at maxcov)
different_args_two_keys(a, file) ==
    IF ~file.exists THEN [raised |-> "ValueError", diff_args |-> {}]
    ELSE IF \E n \in DOMAIN file.lines : Len(file.lines[n]) # 2
    THEN [raised |-> "ValueError", diff_args |-> {}]
    ELSE IF file.lines = <<>> THEN [raised |-> "ValueError", diff_args |-> {}]
    ELSE IF \E key \in RecognizedKeys : old_config_dict(file.lines, key) = None
    THEN [raised |-> "KeyError", diff_args |-> {}]
    ELSE [raised |-> None,
          diff_args |-> {key \in {"maxdist", "subassembler"} :
              str(key, a[key]) # old_config_dict(file.lines, key)}]

\* different_args: ValueError for a missing file, for a line that does not
\* unpack into (key, val), and for a file without lines; KeyError (which main
\* does not catch) at the first recognized key the file does not hold;
\* otherwise the recognized keys whose str(current value) is not the old value.
different_args(a, file) ==
    IF ~file.exists THEN [raised |-> "ValueError", diff_args |-> {}]
    ELSE IF \E n \in DOMAIN file.lines : Len(file.lines[n]) # 2
    THEN [raised |-> "ValueError", diff_args |-> {}]
    ELSE IF file.lines = <<>> THEN [raised |-> "ValueError", diff_args |-> {}]
    ELSE IF \E key \in RecognizedKeys : old_config_dict(file.lines, key) = None
    THEN [raised |-> "KeyError", diff_args |-> {}]
    ELSE [raised |-> None,
          diff_args |-> {key \in RecognizedKeys :
              str(key, a[key]) # old_config_dict(file.lines, key)}]

\* ------------------------------------------------------------- environment
\* What the outside world does to one accession during one invocation: which
\* external step (if any) misbehaves for it.  The tools are deterministic
\* within an invocation; between invocations the environment may change.
\*   dl        fasterq-dump fails or the download reports an error
\*   len       the average read length is outside 65..301
\*   pob       plentyofbugs exits non-zero
\*   far       the best reference is at mash distance 0.08
\*   kr        kraken2 exits non-zero
\*   krEmpty   kraken2 exits zero and writes an empty report
\*   sickle    the trimmer raises
\*   covLow    the read set has 10x coverage
\*   seqtk     seqtk exits non-zero
\*   riboErr   ribo run exits non-zero and writes no contigs
\*   riboNone  ribo run exits zero and writes no contigs
\*   barrnap   barrnap exits non-zero
\*   gff       barrnap's output has a line of fewer than nine fields
\*   no16s     barrnap finds no 16S sequence in the assembly
Faults ==
    {"none", "dl", "len", "pob", "far", "kr", "krEmpty", "sickle", "covLow",
     "seqtk", "riboErr", "riboNone"}

\* The faults of the assembly specification: those of the pool and of the
\* 16S extraction, and one of the stages before.
AssemblyFaults ==
    {"none", "dl", "riboErr", "riboNone", "barrnap", "gff", "no16s"}

\* The faults of the batch specification (two accessions).
BatchFaults == {"none", "dl", "riboNone", "covLow", "seqtk"}

\* What the outside world does to the whole invocation.
\*   noSRA     sraFind knows no accession of the organism
\*   noRef     decide_skip_or_download_genomes reports an error
\*   noUsable  no reference genome is left after the rDNA check
GlobalFaults == {"none", "noSRA", "noRef", "noUsable"}

\* mash distance of the best reference, in hundredths like maxdist
best_ref_dist(fault) == IF fault = "far" THEN 8 ELSE 3

\* A read file is the tuple of the number of its lines (four to a read); the
\* mate file of single-end reads, None in the program, is the empty tuple.
\* A coverage is the exact fraction <<numerator, denominator>> that float()
\* is given.
NoMate == <<>>

\* get_coverage, lines 435-452: the loop over enumerate(data) leaves in count
\* the index of the last line; paired reads double read_length.
get_coverage(read_length, approx_length, fastq1, fastq2) ==
    LET count == fastq1[1] - 1
        length == IF fastq2 # NoMate THEN read_length * 2 ELSE read_length
    IN  <<count * length, approx_length * 4>>

\* coverage < n and coverage > n, for a coverage and an integer n
Below(coverage, n) == coverage[1] < n * coverage[2]
Above(coverage, n) == coverage[1] > n * coverage[2]

\* ------------------------------------------- update_status_file, by steps
\* A status file on disk: whether it exists, and its lines in order.
NoStatusFile == [exists |-> FALSE, lines |-> <<>>]

\* no call of update_status_file is under way, and there is no status file
NoUpdate ==
    [pc |-> "idle", path |-> NoStatusFile, before |-> NoStatusFile,
     to_remove |-> {}, message |-> None, statuses |-> <<>>, buffer |-> <<>>]

\* no call of a pure function: its name, its arguments, and the tuple of
\* the value it returned (empty until it has returned)
NoCall == [fn |-> "none", args |-> <<>>, result |-> <<>>]

\* parse_status_file on the file itself: [] for a missing file, else its lines
statuses_in(path) == IF ~path.exists THEN <<>> ELSE path.lines

\* (a set() that keeps the list as it is, duplicates included)
list(statuses) == {statuses}

\* set(statuses), line 321: the statuses without duplicates, in any of the
\* orders the iteration over a set may take
set(statuses) ==
    LET S == {statuses[k] : k \in DOMAIN statuses}
    IN  {q \in [1..Cardinality(S) -> S] :
            \A j, k \in 1..Cardinality(S) : j # k => q[j] # q[k]}

\* ------------------------------------------------------------------- state
VARIABLES
    filtered_sras,   \* the batch: the accessions, in processing order
    update,          \* a call of update_status_file, step by step
    call,            \* a call of one of the pure functions: arguments, result
    extract16soutput, \* <output_dir>/<organism>_ribo16s.fasta: its records
    out_summary,     \* <output_dir>/sequence_summary.tab: its records
    config,          \* <output_dir>/config: whether it exists, and its lines
    status,          \* accession -> the lines of its status file
    best_reference,  \* accession -> NoFile or <<the distance the file records>>
    report,          \* accession -> kraken2.report: "absent", "empty", "ok"
    contigs,         \* accession -> riboSeedContigs.fasta exists
    assembled_with,  \* history, for the accessions it is kept for: the tracked
                     \*   arguments the contigs were assembled under, in a
                     \*   tuple (empty without contigs)
    SUMMARY,         \* <output_dir>/SUMMARY: the ledger's lines
    args,            \* the parsed command line of this invocation
    env,             \* accession -> its fault in this invocation
    genv,            \* the invocation's global fault
    pc,              \* where main() is
    i,               \* index of the accession the loop is at
    status_file,     \* main's variable status_file: the accession it names
    updated_args,    \* what the config comparison reported
    riboSeed_jobs,   \* main's list of jobs
    pooled,          \* the jobs a pool worker has taken: what it wrote to
                     \* slot 4 of its copy, and whether it has returned
    v,               \* index of the job post-pool reconciliation is at
    all_assemblies,  \* accessions whose assembly goes to 16S extraction
    exit_code,       \* the arguments of the sys.exit that ended main
    n_compared,      \* history: config comparisons made by this invocation
    at_start,        \* history: the files as they were when it started
    same_as_last     \* history: same command line and environment as the
                     \* invocation before, which ran to its end

vars ==
    <<filtered_sras, update, call, extract16soutput, out_summary,
      config, status, best_reference, report, contigs, assembled_with, SUMMARY,
      args, env, genv, pc, i, status_file, updated_args, riboSeed_jobs, pooled,
      v, all_assemblies, exit_code, n_compared, at_start, same_as_last>>

disk == <<status, best_reference, report, contigs, assembled_with>>
history == <<n_compared, at_start, same_as_last>>

\* the accession the loop is at
accession == filtered_sras[i]

\* write_pass_fail: one line appended to SUMMARY
write_pass_fail(file, st, stage, note) ==
    Append(file, [status |-> st, stage |-> stage, note |-> note])

NoArgs == [maxdist |-> 5, subassembler |-> "spades", maxcov |-> 50,
           redo_assembly |-> FALSE, njobs |-> 1]

NoSnapshot ==
    [status |-> [a \in Accessions |-> {}],
     contigs |-> [a \in Accessions |-> FALSE],
     report |-> [a \in Accessions |-> "absent"],
     best_reference |-> [a \in Accessions |-> NoFile],
     config |-> NoConfig, SUMMARY |-> <<>>, ran |-> FALSE]

InitCommon ==
    /\ config = NoConfig
    /\ status = [a \in Accessions |-> {}]
    /\ best_reference = [a \in Accessions |-> NoFile]
    /\ report = [a \in Accessions |-> "absent"]
    /\ contigs = [a \in Accessions |-> FALSE]
    /\ SUMMARY = <<>>
    /\ args = NoArgs
    /\ env = [a \in Accessions |-> "none"]
    /\ genv = "none"
    /\ pc = "idle"
    /\ i = 1
    /\ status_file = None
    /\ updated_args = {}
    /\ riboSeed_jobs = <<>>
    /\ pooled = <<>>
    /\ v = 1
    /\ all_assemblies = <<>>
    /\ exit_code = <<>>
    /\ n_compared = 0
    /\ at_start = NoSnapshot
    /\ same_as_last = FALSE

\* An empty output directory, and a batch of one accession.
Init ==
    /\ filtered_sras = <<"A">>
    /\ update = NoUpdate
    /\ call = NoCall
    /\ assembled_with = <<>>
    /\ extract16soutput = <<>>
    /\ out_summary = <<>>
    /\ InitCommon

\* The lines a config file left by an earlier invocation is made of: lines of
\* recognized keys, a line of a key no longer recognized, and a blank line.
ConfigLines ==
    {<<"maxdist", "0.05">>, <<"maxdist", "0.1">>, <<"subassembler", "spades">>,
     <<"maxcov", "50">>, <<"n_references", "0">>, <<"">>}

ConfigFiles ==
    {NoConfig} \cup
    {File(l) : l \in UNION {[1..n -> ConfigLines] : n \in 0..MaxLines}}

\* An output directory that holds nothing but a config file, of any content,
\* and a batch of one accession.
InitArgs ==
    /\ filtered_sras = <<"A">>
    /\ update = NoUpdate
    /\ call = NoCall
    /\ assembled_with = <<>>
    /\ extract16soutput = <<>>
    /\ out_summary = <<>>
    /\ config \in ConfigFiles
    /\ status = [a \in Accessions |-> {}]
    /\ best_reference = [a \in Accessions |-> NoFile]
    /\ report = [a \in Accessions |-> "absent"]
    /\ contigs = [a \in Accessions |-> FALSE]
    /\ SUMMARY = <<>>
    /\ args = NoArgs
    /\ env = [a \in Accessions |-> "none"]
    /\ genv = "none"
    /\ pc = "idle"
    /\ i = 1
    /\ status_file = None
    /\ updated_args = {}
    /\ riboSeed_jobs = <<>>
    /\ pooled = <<>>
    /\ v = 1
    /\ all_assemblies = <<>>
    /\ exit_code = <<>>
    /\ n_compared = 0
    /\ at_start = NoSnapshot
    /\ same_as_last = FALSE

\* An empty output directory, and a batch of two accessions.
InitBatch ==
    /\ filtered_sras = <<"A", "B">>
    /\ update = NoUpdate
    /\ call = NoCall
    /\ assembled_with = <<>>
    /\ extract16soutput = <<>>
    /\ out_summary = <<>>
    /\ InitCommon

\* ------------------------------------------------------------ main: set-up
\* the files as an invocation finds them
Snapshot ==
    [status |-> status, contigs |-> contigs, report |-> report,
     best_reference |-> best_reference, config |-> config,
     SUMMARY |-> SUMMARY, ran |-> TRUE]

\* history: the records of the 16S output files that an invocation finds
\* when it starts are those of an earlier invocation
earlier(file) == [n \in DOMAIN file |-> [file[n] EXCEPT !.run = "earlier"]]

\* (a start that leaves the SUMMARY of the invocation before in place)
Begin_keep ==
    /\ at_start' = Snapshot
    /\ n_compared' = 0
    /\ pc' = "sras"
    /\ i' = 1
    /\ status_file' = None
    /\ updated_args' = {}
    /\ riboSeed_jobs' = <<>>
    /\ pooled' = <<>>
    /\ v' = 1
    /\ all_assemblies' = <<>>
    /\ exit_code' = <<>>
    /\ extract16soutput' = earlier(extract16soutput)
    /\ out_summary' = earlier(out_summary)
    /\ UNCHANGED <<filtered_sras, update, call, config, disk, SUMMARY>>

\* main, lines 899-904, common to every way of starting: an old SUMMARY is
\* removed and main's variables are fresh.
Begin ==
    /\ at_start' = Snapshot
    /\ SUMMARY' = <<>>
    /\ n_compared' = 0
    /\ pc' = "sras"
    /\ i' = 1
    /\ status_file' = None
    /\ updated_args' = {}
    /\ riboSeed_jobs' = <<>>
    /\ pooled' = <<>>
    /\ v' = 1
    /\ all_assemblies' = <<>>
    /\ exit_code' = <<>>
    /\ extract16soutput' = earlier(extract16soutput)
    /\ out_summary' = earlier(out_summary)
    /\ UNCHANGED <<filtered_sras, update, call, config, disk>>

\* A new invocation: the command line and what the outside world will do are
\* chosen.  The outside world has one fault per invocation: a global one, or
\* one per accession of the batch.
Start(argspace, faults) ==
    /\ pc = "idle"
    /\ \E a \in argspace, g \in GlobalFaults,
          e \in [Accessions -> faults] :
        /\ \A acc \in Accessions :
              (g # "none" \/ \A k \in DOMAIN filtered_sras :
                                 filtered_sras[k] # acc)
                  => e[acc] = "none"
        /\ args' = a
        /\ env' = e
        /\ genv' = g
    /\ same_as_last' = FALSE
    /\ Begin

\* The invocation that ran to its end is repeated: same command line, same
\* inputs, same behaviour of the outside world.
Rerun ==
    /\ pc = "exit"
    /\ same_as_last' = TRUE
    /\ UNCHANGED <<args, env, genv>>
    /\ Begin

\* The process is gone (sys.exit, or an uncaught exception): nothing is left
\* of it but the files.  SUMMARY is let go of here: lines 903-904 remove it
\* before the next invocation reads or writes it (Rerun starts with it in place).
Terminate ==
    /\ pc \in {"exit", "KeyError", "NameError", "IndexError", "killed"}
    /\ pc' = "idle"
    /\ args' = NoArgs
    /\ env' = [a \in Accessions |-> "none"]
    /\ genv' = "none"
    /\ i' = 1
    /\ status_file' = None
    /\ updated_args' = {}
    /\ riboSeed_jobs' = <<>>
    /\ pooled' = <<>>
    /\ v' = 1
    /\ all_assemblies' = <<>>
    /\ exit_code' = <<>>
    /\ n_compared' = 0
    /\ at_start' = NoSnapshot
    /\ same_as_last' = FALSE
    /\ SUMMARY' = <<>>
    /\ UNCHANGED <<filtered_sras, update, call, extract16soutput, out_summary,
                   config, disk>>

StartRun == Start(ArgSpace, Faults)

\* the command lines of the batch specification
BatchArgs ==
    {a \in ArgSpace : a.subassembler = "spades" /\ ~a.redo_assembly}

StartRunBatch == Start(BatchArgs, BatchFaults)

\* the failures specification: the default command line, every fault
StartRunErrors == Start({NoArgs}, Faults)

\* the command lines of the assembly specification: every size of the pool
AssemblyArgs == {[NoArgs EXCEPT !.njobs = n] : n \in NjobsValues}

StartRunAssembly == Start(AssemblyArgs, AssemblyFaults)

\* the config-file specification: every command line, no fault
StartRunArgs == Start(ArgSpace, {"none"})

\* the arguments of a command line that the config file tracks
tracked(namespace) ==
    [maxdist |-> namespace.maxdist, subassembler |-> namespace.subassembler,
     maxcov |-> namespace.maxcov]

\* sys.exit(*arg): main is over
sys_exit(arg) ==
    /\ pc' = "exit"
    /\ exit_code' = arg

\* (a set-up that goes on to the references without the comparison)
GlobalChecks_skip ==
    /\ pc = "sras"
    /\ IF genv = "noSRA"
       THEN /\ SUMMARY' = write_pass_fail(SUMMARY, "FAIL", "global",
                                          "No SRAs available")
            /\ sys_exit(<<1>>)
       ELSE IF genv = "noRef"
       THEN /\ SUMMARY' = write_pass_fail(SUMMARY, "ERROR", "global",
                                          "No available references")
            /\ sys_exit(<<1>>)
       ELSE /\ pc' = "references"
            /\ UNCHANGED <<SUMMARY, exit_code>>
    /\ UNCHANGED <<filtered_sras, update, call, extract16soutput, out_summary,
                   config, disk, args, env, genv, i, status_file,
                   updated_args, riboSeed_jobs, pooled, v, all_assemblies,
                   history>>

\* main, lines 951-972: no accession to work on, or no reference genomes.
\* (genv = "noSRA" stands for the invocation whose accession list came out empty.)
GlobalChecks ==
    /\ pc = "sras"
    /\ IF genv = "noSRA"
       THEN /\ SUMMARY' = write_pass_fail(SUMMARY, "FAIL", "global",
                                          "No SRAs available")
            /\ sys_exit(<<1>>)
       ELSE IF genv = "noRef"
       THEN /\ SUMMARY' = write_pass_fail(SUMMARY, "ERROR", "global",
                                          "No available references")
            /\ sys_exit(<<1>>)
       ELSE /\ pc' = "config"
            /\ UNCHANGED <<SUMMARY, exit_code>>
    /\ UNCHANGED <<filtered_sras, update, call, extract16soutput, out_summary,
                   config, disk, args, env, genv, i, status_file,
                   updated_args, riboSeed_jobs, pooled, v, all_assemblies,
                   history>>

\* main, lines 975-985: compare the command line with the persisted config,
\* then overwrite the config.  ValueError is caught and every recognized key
\* is taken as changed; any other exception ends the invocation.
CompareConfig ==
    /\ pc = "config"
    /\ n_compared' = n_compared + 1
    /\ LET res == different_args(args, config)
       IN  IF res.raised = "KeyError"
           THEN /\ pc' = "KeyError"
                /\ UNCHANGED <<config, updated_args>>
           ELSE /\ updated_args' = IF res.raised = "ValueError"
                                   THEN RecognizedKeys ELSE res.diff_args
                /\ config' = write_this_config(args)
                /\ pc' = "references"
    /\ UNCHANGED <<filtered_sras, update, call, extract16soutput, out_summary,
                   disk, SUMMARY, args, env, genv, i,
                   status_file, riboSeed_jobs, pooled, v, all_assemblies,
                   exit_code, at_start, same_as_last>>

\* main, lines 988-1011: the rDNA check of the references.
CheckReferences ==
    /\ pc = "references"
    /\ IF genv = "noUsable"
       THEN /\ SUMMARY' = write_pass_fail(SUMMARY, "FAIL", "global",
                              "No references had more than 1 rDNA")
            /\ sys_exit(<<0>>)
       ELSE /\ pc' = "loop"
            /\ UNCHANGED <<SUMMARY, exit_code>>
    /\ UNCHANGED <<filtered_sras, update, call, extract16soutput, out_summary,
                   config, disk, args, env, genv, i, status_file,
                   updated_args, riboSeed_jobs, pooled, v, all_assemblies,
                   history>>

\* --------------------------------------------------- main: the accession loop
\* what the loop over the accessions never touches
fixed ==
    <<filtered_sras, update, call, extract16soutput, out_summary,
      config, args, env, genv, updated_args, pooled, v,
      all_assemblies, exit_code, n_compared, at_start, same_as_last>>

\* (a handler that ends the loop instead of going on to the next accession)
Recorded_break(st, note) ==
    /\ SUMMARY' = write_pass_fail(SUMMARY, st, accession, note)
    /\ i' = Len(filtered_sras) + 1
    /\ pc' = "loop"

\* `continue` after write_pass_fail: the accession is recorded and left
Recorded(st, note) ==
    /\ SUMMARY' = write_pass_fail(SUMMARY, st, accession, note)
    /\ i' = i + 1
    /\ pc' = "loop"

\* (an invalidation that takes TRIMMED along when --maxcov changed)
invalidate_trimmed(file, updated) ==
    IF "maxcov" \in updated
    THEN update_status_file(file, {TRIMMED, DOWNSAMPLED, RIBOSEED_COMPLETE},
                            None)
    ELSE IF updated # {}
    THEN update_status_file(file, {RIBOSEED_COMPLETE}, None)
    ELSE file

\* main, lines 1025-1035: the markers the changed arguments invalidate
invalidate(file, updated) ==
    LET s1 == IF "maxdist" \in updated
              THEN update_status_file(file, {RIBOSEED_COMPLETE}, None)
              ELSE file
        s2 == IF "maxcov" \in updated
              THEN update_status_file(s1, {DOWNSAMPLED, RIBOSEED_COMPLETE}, None)
              ELSE s1
    IN  IF "subassembler" \in updated
        THEN update_status_file(s2, {RIBOSEED_COMPLETE}, None)
        ELSE s2

\* main, lines 1013-1035: the next accession; its markers and its
\* best_reference are invalidated after the changed arguments.
NextAccession ==
    /\ pc = "loop"
    /\ i <= Len(filtered_sras)
    /\ status_file' = accession
    /\ status' = [status EXCEPT ![accession] = invalidate(@, updated_args)]
    /\ best_reference' =
          IF "maxdist" \in updated_args
          THEN [best_reference EXCEPT ![accession] = NoFile]
          ELSE best_reference
    /\ pc' = "existing"
    /\ UNCHANGED <<fixed, report, contigs, assembled_with,
                   SUMMARY, i, riboSeed_jobs>>

\* (a job that carries the command whatever it is given)
Job_with_command(acc, cmd) ==
    [acc |-> acc, cmd |-> TRUE, status_file |-> acc, slot4 |-> "tax_d"]

\* a job of riboSeed_jobs: [accession, cmd, contigs, status_file, tax_d, None];
\* cmd is TRUE for a command line and FALSE for None.  Slot 4 holds the
\* taxonomy dictionary.
Job(acc, cmd) ==
    [acc |-> acc, cmd |-> cmd, status_file |-> acc, slot4 |-> "tax_d"]

\* main, lines 1038-1049: RIBOSEED COMPLETE with both output files non-empty:
\* the existing results are used and the accession is left.
UseExisting ==
    /\ pc = "existing"
    /\ IF /\ RIBOSEED_COMPLETE \in parse_status_file(status[accession])
          /\ ~args.redo_assembly
          /\ contigs[accession]
          /\ report[accession] = "ok"
       THEN /\ riboSeed_jobs' = Append(riboSeed_jobs, Job(accession, FALSE))
            /\ i' = i + 1
            /\ pc' = "loop"
       ELSE /\ pc' = "download"
            /\ UNCHANGED <<riboSeed_jobs, i>>
    /\ UNCHANGED <<fixed, disk, SUMMARY, status_file>>

\* main, lines 1051-1074: get_SRA_data
Download ==
    /\ pc = "download"
    /\ IF env[accession] = "dl"
       THEN Recorded("ERROR", "Error downloading")
       ELSE /\ pc' = "readlen"
            /\ UNCHANGED <<SUMMARY, i>>
    /\ UNCHANGED <<fixed, disk, status_file, riboSeed_jobs>>

\* main, lines 1075-1086: get_and_check_ave_read_len_from_fastq
ReadLength ==
    /\ pc = "readlen"
    /\ IF env[accession] = "len"
       THEN Recorded("ERROR", "Reads were shorter than 65bp threshold")
       ELSE /\ pc' = "ps_reference"
            /\ UNCHANGED <<SUMMARY, i>>
    /\ UNCHANGED <<fixed, disk, status_file, riboSeed_jobs>>

\* ------------------------------------------------------------ process_strain
\* process_strain, lines 607-609: no best_reference, so plentyofbugs is to run
Reference ==
    /\ pc = "ps_reference"
    /\ pc' = IF best_reference[accession] = NoFile THEN "pob" ELSE "ps_distance"
    /\ UNCHANGED <<fixed, disk, SUMMARY, i, status_file, riboSeed_jobs>>

\* pob, lines 337-376 (called at 610), with main's handlers 1101-1124
Pob ==
    /\ pc = "pob"
    /\ IF env[accession] = "pob"
       THEN /\ Recorded("ERROR", "Unknown error selecting reference")
            /\ UNCHANGED best_reference
       ELSE /\ best_reference' =
                  [best_reference EXCEPT
                      ![accession] = <<best_ref_dist(env[accession])>>]
            /\ IF best_ref_dist(env[accession]) > args.maxdist
               THEN Recorded("FAIL",
                             "No reference meets threshold for re-assembly")
               ELSE /\ pc' = "ps_distance"
                    /\ UNCHANGED <<SUMMARY, i>>
    /\ UNCHANGED <<fixed, status, report, contigs, assembled_with,
                   status_file, riboSeed_jobs>>

\* process_strain, lines 614-621: the recorded distance against --maxdist
Distance ==
    /\ pc = "ps_distance"
    /\ IF args.maxdist < best_reference[accession][1]
       THEN Recorded("FAIL", "No reference meets threshold for re-assembly")
       ELSE /\ pc' = "ps_taxonomy"
            /\ UNCHANGED <<SUMMARY, i>>
    /\ UNCHANGED <<fixed, disk, status_file, riboSeed_jobs>>

\* (a process_strain that has kraken2 run whatever the status file holds)
Taxonomy_always ==
    /\ pc = "ps_taxonomy"
    /\ report' = [report EXCEPT ![accession] = "absent"]
    /\ pc' = "kraken2"
    /\ UNCHANGED <<fixed, status, best_reference, contigs, assembled_with,
                   SUMMARY, i,
                   status_file, riboSeed_jobs>>

\* process_strain, lines 622-627: TAXONOMY unmarked or no report, so the
\* kraken2 directory is removed and kraken2 is to run
Taxonomy ==
    /\ pc = "ps_taxonomy"
    /\ IF \/ TAXONOMY \notin parse_status_file(status[accession])
          \/ report[accession] = "absent"
       THEN /\ report' = [report EXCEPT ![accession] = "absent"]
            /\ pc' = "kraken2"
       ELSE /\ pc' = "ps_report"
            /\ UNCHANGED report
    /\ UNCHANGED <<fixed, status, best_reference, contigs, assembled_with,
                   SUMMARY, i,
                   status_file, riboSeed_jobs>>

\* process_strain, lines 628-638: run_kraken2, then the TAXONOMY marker
Kraken2 ==
    /\ pc = "kraken2"
    /\ IF env[accession] = "kr"
       THEN /\ Recorded("ERROR", "Unknown error runing kraken2")
            /\ UNCHANGED <<status, report>>
       ELSE /\ report' = [report EXCEPT ![accession] =
                  IF env[accession] = "krEmpty" THEN "empty" ELSE "ok"]
            /\ status' = [status EXCEPT
                  ![accession] = update_status_file(@, {}, TAXONOMY)]
            /\ pc' = "ps_report"
            /\ UNCHANGED <<SUMMARY, i>>
    /\ UNCHANGED <<fixed, best_reference, contigs, assembled_with,
                   status_file, riboSeed_jobs>>

\* process_strain, lines 639-641: an empty report is a kraken2Error
Report ==
    /\ pc = "ps_report"
    /\ IF report[accession] = "empty"
       THEN Recorded("ERROR", "Unknown error runing kraken2")
       ELSE /\ pc' = "ps_trimmed"
            /\ UNCHANGED <<SUMMARY, i>>
    /\ UNCHANGED <<fixed, disk, status_file, riboSeed_jobs>>

\* process_strain, lines 656-661: TRIMMED unmarked, so DOWNSAMPLED and
\* RIBOSEED COMPLETE are removed (and the sickle directory)
Trimmed ==
    /\ pc = "ps_trimmed"
    /\ status' = [status EXCEPT ![accession] =
          IF TRIMMED \notin parse_status_file(@)
          THEN update_status_file(@, {DOWNSAMPLED, RIBOSEED_COMPLETE}, None)
          ELSE @]
    /\ pc' = "run_sickle"
    /\ UNCHANGED <<fixed, best_reference, report, contigs, assembled_with,
                   SUMMARY, i,
                   status_file, riboSeed_jobs>>

\* run_sickle(..., run = TRIMMED unmarked): the trimmer runs only when asked
\* to; when it raises, main's `except Exception` handler (lines 1132-1142)
\* itself raises NameError on `this_res` and the invocation ends.
run_sickle(run, fault) == IF run /\ fault = "sickle" THEN "raised" ELSE "done"

\* (a process_strain that leaves the TRIMMED marker out)
Sickle_unmarked ==
    /\ pc = "run_sickle"
    /\ IF run_sickle(TRIMMED \notin parse_status_file(status[accession]),
                     env[accession]) = "raised"
       THEN pc' = "NameError"
       ELSE pc' = "ps_downsampled"
    /\ UNCHANGED <<fixed, status, best_reference, report, contigs, assembled_with,
                   SUMMARY, i,
                   status_file, riboSeed_jobs>>

\* process_strain, lines 662-667: run_sickle, then the TRIMMED marker
Sickle ==
    /\ pc = "run_sickle"
    /\ IF run_sickle(TRIMMED \notin parse_status_file(status[accession]),
                     env[accession]) = "raised"
       THEN /\ pc' = "NameError"
            /\ UNCHANGED status
       ELSE /\ status' = [status EXCEPT
                  ![accession] = update_status_file(@, {}, TRIMMED)]
            /\ pc' = "ps_downsampled"
    /\ UNCHANGED <<fixed, best_reference, report, contigs, assembled_with,
                   SUMMARY, i,
                   status_file, riboSeed_jobs>>

\* process_strain, lines 677-680: DOWNSAMPLED unmarked, so RIBOSEED COMPLETE
\* is removed (and the downsampled directory)
not_downsampled(file) ==
    IF DOWNSAMPLED \notin parse_status_file(file)
    THEN update_status_file(file, {RIBOSEED_COMPLETE}, None)
    ELSE file

Downsampled ==
    /\ pc = "ps_downsampled"
    /\ status' = [status EXCEPT ![accession] = not_downsampled(@)]
    /\ pc' = "downsample"
    /\ UNCHANGED <<fixed, best_reference, report, contigs, assembled_with,
                   SUMMARY, i,
                   status_file, riboSeed_jobs>>

\* round(float(maxcoverage / coverage), 3), line 488, as the fraction of
\* its thousandths: the nearest, the even one of two equally near
covfrac(maxcoverage, coverage) ==
    LET n == 1000 * maxcoverage * coverage[2]
        q == n \div coverage[1]
        r == n % coverage[1]
    IN  <<IF 2 * r < coverage[1] THEN q
          ELSE IF 2 * r > coverage[1] THEN q + 1
          ELSE IF q % 2 = 0 THEN q ELSE q + 1,
          1000>>

\* (a downsample whose bounds are not strict)
downsample_at_bounds(read_length, approx_length, fastq1, fastq2, mincoverage, maxcoverage, fault, run) ==
    LET coverage == get_coverage(read_length, approx_length, fastq1, fastq2)
        sampled == [raised |-> None, paths |-> "downsampled",
                    commands |-> <<covfrac(maxcoverage, coverage)>>]
    IN  IF ~run
        THEN [raised |-> None, commands |-> <<>>, paths |-> "kept"]
        ELSE IF ~Above(coverage, mincoverage)
        THEN [raised |-> "coverageError", commands |-> <<>>, paths |-> None]
        ELSE IF ~Below(coverage, maxcoverage)
        THEN sampled
        ELSE [raised |-> None, commands |-> <<>>, paths |-> "input"]

\* downsample(..., run), lines 455-517: what it raised (None when it
\* returned), the fractions of the seqtk commands it ran, and the paths it
\* returned: "kept" when not asked to run (the downsampled files if there are
\* any, else its input); otherwise coverageError under --mincov, seqtk when
\* over --maxcov (once for each read file, downsamplingError at the first
\* that fails, else the "downsampled" paths), else its "input".
downsample(read_length, approx_length, fastq1, fastq2, mincoverage, maxcoverage, fault, run) ==
    LET coverage == get_coverage(read_length, approx_length, fastq1, fastq2)
        dcmd == covfrac(maxcoverage, coverage)
        commands == IF fastq2 # NoMate THEN <<dcmd, dcmd>> ELSE <<dcmd>>
    IN  IF ~run
        THEN [raised |-> None, commands |-> <<>>, paths |-> "kept"]
        ELSE IF Below(coverage, mincoverage)
        THEN [raised |-> "coverageError", commands |-> <<>>, paths |-> None]
        ELSE IF Above(coverage, maxcoverage)
        THEN (IF fault = "seqtk"
              THEN [raised |-> "downsamplingError", commands |-> <<dcmd>>,
                    paths |-> None]
              ELSE [raised |-> None, commands |-> commands,
                    paths |-> "downsampled"])
        ELSE [raised |-> None, commands |-> <<>>, paths |-> "input"]

\* process_strain, line 691: reached when downsample returned
downsampled(file, res) ==
    IF res.raised = None THEN update_status_file(file, {}, DOWNSAMPLED)
    ELSE file

\* The reads of an accession after trimming, in the pipeline: paired, 100
\* bases a read, for a genome of 1000 bases; 10x under the fault covLow,
\* else 75x.
trimmed_fastq(fault) == IF fault = "covLow" THEN <<201>> ELSE <<1501>>
ave_read_len == 100
genome_length == 1000

\* process_strain, lines 681-691: downsample, then the DOWNSAMPLED marker
Downsample ==
    /\ pc = "downsample"
    /\ LET res == downsample(
                      ave_read_len, genome_length,
                      trimmed_fastq(env[accession]),
                      trimmed_fastq(env[accession]),
                      mincov, args.maxcov, env[accession],
                      DOWNSAMPLED \notin parse_status_file(status[accession]))
       IN  /\ status' = [status EXCEPT ![accession] = downsampled(@, res)]
           /\ IF res.raised = "coverageError"
              THEN Recorded("FAIL", "Insufficient coverage")
              ELSE IF res.raised = "downsamplingError"
              THEN Recorded("ERROR", "Unknown error downsampling")
              ELSE /\ pc' = "ps_riboseed"
                   /\ UNCHANGED <<SUMMARY, i>>
    /\ UNCHANGED <<fixed, best_reference, report, contigs, assembled_with,
                   status_file,
                   riboSeed_jobs>>

\* process_strain, lines 694-712, and main, lines 1093-1094: the job of the
\* accession.  --redo_assembly removes RIBOSEED COMPLETE; unmarked, the
\* riboSeed directory is removed and the job carries the command.
RiboSeedJob ==
    /\ pc = "ps_riboseed"
    /\ LET file == IF args.redo_assembly
                   THEN update_status_file(status[accession],
                                           {RIBOSEED_COMPLETE}, None)
                   ELSE status[accession]
           todo == RIBOSEED_COMPLETE \notin parse_status_file(file)
       IN  /\ status' = [status EXCEPT ![accession] = file]
           /\ contigs' = IF todo THEN [contigs EXCEPT ![accession] = FALSE]
                         ELSE contigs
           /\ assembled_with' =
                 [a \in DOMAIN assembled_with |->
                     IF todo /\ a = accession THEN <<>>
                     ELSE assembled_with[a]]
           /\ riboSeed_jobs' = Append(riboSeed_jobs, Job(accession, todo))
    /\ i' = i + 1
    /\ pc' = "loop"
    /\ UNCHANGED <<fixed, best_reference, report, SUMMARY, status_file>>

\* ------------------------------------------------------------ main: the pool
\* what the pool and the reconciliation never touch
settled ==
    <<filtered_sras, update, call, extract16soutput, out_summary,
      config, args, env, genv, updated_args, i, status_file,
      exit_code, n_compared, at_start, same_as_last>>

\* main, lines 1144-1163: the loop is over and the jobs go to the pool
StartPool ==
    /\ pc = "loop"
    /\ i > Len(filtered_sras)
    /\ pc' = "pool"
    /\ pooled' = <<>>
    /\ UNCHANGED <<settled, disk, SUMMARY, riboSeed_jobs, v, all_assemblies>>

\* run_riboSeed_catch_errors, lines 830-853, as to slot 4 of the job: the
\* values it assigns to it, in order.  0 for a command that is None (line
\* 834); else 1 in the handler of CalledProcessError (line 845), and then 0
\* whatever happened (line 852).
run_riboSeed_catch_errors(cmd, returncode) ==
    IF ~cmd
    THEN <<"0">>
    ELSE (IF returncode # 0 THEN <<"1">> ELSE <<>>) \o <<"0">>

\* the jobs a worker of the pool is running
running == {k \in DOMAIN pooled : ~pooled[k].ready}

\* (a pool with a worker for every job, whatever --njobs)
WorkerTakes_unlimited(k) ==
    /\ pc = "pool"
    /\ k \in DOMAIN riboSeed_jobs
    /\ k = Len(pooled) + 1
    /\ pooled' = Append(pooled, [ready |-> FALSE, writes |-> <<>>])
    /\ UNCHANGED <<settled, disk, SUMMARY, pc, riboSeed_jobs, v,
                   all_assemblies>>

\* multiprocessing.Pool(processes=args.njobs), line 1153: a worker that is
\* free takes the next job of the queue, in the order of submission.
WorkerTakes(k) ==
    /\ pc = "pool"
    /\ k \in DOMAIN riboSeed_jobs
    /\ k = Len(pooled) + 1
    /\ Cardinality(running) < args.njobs
    /\ pooled' = Append(pooled, [ready |-> FALSE, writes |-> <<>>])
    /\ UNCHANGED <<settled, disk, SUMMARY, pc, riboSeed_jobs, v,
                   all_assemblies>>

\* run_riboSeed_catch_errors returns in the worker that took job k.  The
\* worker has a pickled copy of riboSeed_jobs: what it writes to slot 4 stays
\* in the worker (pooled[k].writes), and riboSeed_jobs of main keeps the
\* taxonomy in slot 4.  A failing command appends a FAIL line to SUMMARY.
WorkerReturns(k) ==
    /\ pc = "pool"
    /\ k \in running
    /\ LET job == riboSeed_jobs[k]
           returncode == IF env[job.acc] = "riboErr" THEN 1 ELSE 0
       IN  /\ IF ~job.cmd
              THEN UNCHANGED <<contigs, assembled_with, SUMMARY>>
              ELSE IF returncode # 0
              THEN /\ SUMMARY' = write_pass_fail(SUMMARY, "FAIL", job.acc,
                                     "Unknown failure running riboSeed")
                   /\ UNCHANGED <<contigs, assembled_with>>
              ELSE /\ contigs' = [contigs EXCEPT
                         ![job.acc] = env[job.acc] # "riboNone"]
                   /\ assembled_with' =
                         [a \in DOMAIN assembled_with |->
                             IF a # job.acc THEN assembled_with[a]
                             ELSE IF env[a] # "riboNone"
                             THEN <<tracked(args)>> ELSE <<>>]
                   /\ UNCHANGED SUMMARY
           /\ pooled' = [pooled EXCEPT ![k] =
                 [ready |-> TRUE,
                  writes |-> run_riboSeed_catch_errors(job.cmd, returncode)]]
    /\ UNCHANGED <<settled, status, best_reference, report, pc, riboSeed_jobs,
                   v, all_assemblies>>

\* (a join that returns while jobs are queued or running)
Join_early ==
    /\ pc = "pool"
    /\ pc' = "outcome"
    /\ v' = 1
    /\ UNCHANGED <<settled, disk, SUMMARY, riboSeed_jobs, pooled,
                   all_assemblies>>

\* main, lines 1164-1167: pool.join() returns when every job is done
Join ==
    /\ pc = "pool"
    /\ DOMAIN pooled = DOMAIN riboSeed_jobs
    /\ running = {}
    /\ pc' = "outcome"
    /\ v' = 1
    /\ UNCHANGED <<settled, disk, SUMMARY, riboSeed_jobs, pooled,
                   all_assemblies>>

\* check_riboSeed_outcome(status_file, contigs), lines 715-725: "marked" with
\* the marker written to the status file it is given, or "unsuccessful"
check_riboSeed_outcome(files, file, exists) ==
    IF exists
    THEN [raised |-> None,
          files |-> [files EXCEPT ![file] =
                        update_status_file(@, {}, RIBOSEED_COMPLETE)]]
    ELSE [raised |-> "riboSeedUnsuccessfulError", files |-> files]

\* main, lines 1169-1186, for the job at index v.  check_riboSeed_outcome is
\* given main's variable status_file, which the loop left at its last
\* accession; the job's own status file is v[3].  v[4] is the taxonomy.
Outcome ==
    /\ pc = "outcome"
    /\ v <= Len(riboSeed_jobs)
    /\ LET job == riboSeed_jobs[v]
           res == check_riboSeed_outcome(status, status_file, contigs[job.acc])
       IN  IF res.raised = None
           THEN /\ status' = [res.files EXCEPT ![job.status_file] =
                      update_status_file(@, {}, RIBOSEED_COMPLETE)]
                /\ SUMMARY' = write_pass_fail(SUMMARY, "PASS", job.acc, "")
                /\ all_assemblies' = Append(all_assemblies, job.acc)
           ELSE IF job.slot4 = "1"
           THEN /\ SUMMARY' = write_pass_fail(SUMMARY, "ERROR", job.acc,
                                              "riboSeed Error")
                /\ UNCHANGED <<status, all_assemblies>>
           ELSE /\ status' = [status EXCEPT ![job.status_file] =
                      update_status_file(@, {}, RIBOSEED_COMPLETE)]
                /\ SUMMARY' = write_pass_fail(SUMMARY, "FAIL", job.acc,
                                              "riboSeed unsuccessful")
                /\ UNCHANGED all_assemblies
    /\ v' = v + 1
    /\ UNCHANGED <<settled, best_reference, report, contigs, assembled_with,
                   pc, riboSeed_jobs,
                   pooled>>

\* extract_16s_from_assembly, lines 741-816: the number of 16S sequences that
\* barrnap found in the assembly and that were written out
extract_16s_from_assembly(sra) ==
    IF env[sra] = "no16s" THEN 0 ELSE 1

\* main, lines 1199-1215, from the assembly at index n on: run_barrnap and
\* extract_16s_from_assembly for each assembly in turn, which appends the
\* sequences it finds to the two output files (held as one here: it writes a
\* record to each for every sequence).  barrnapError is caught and recorded;
\* extracting16sError is caught too, but nothing raises it; what
\* extract_16s_from_assembly does raise leaves the loop and main.
RECURSIVE extract_loop(_, _, _, _)
extract_loop(ledger, output, n_extracted_seqs, n) ==
    IF n > Len(all_assemblies)
    THEN [raised |-> None, SUMMARY |-> ledger, output |-> output,
          n_extracted_seqs |-> n_extracted_seqs]
    ELSE LET sra == all_assemblies[n]
             nseqs == extract_16s_from_assembly(sra)
         IN  IF env[sra] = "barrnap"
             THEN extract_loop(write_pass_fail(ledger, "ERROR", sra,
                                   "Error running barrnap"),
                               output, n_extracted_seqs, n + 1)
             ELSE IF env[sra] = "gff"
             THEN [raised |-> "IndexError", SUMMARY |-> ledger,
                   output |-> output, n_extracted_seqs |-> n_extracted_seqs]
             ELSE extract_loop(ledger,
                      IF nseqs = 0 THEN output
                      ELSE Append(output, [sra |-> sra, run |-> "this"]),
                      n_extracted_seqs + nseqs, n + 1)

\* main, lines 1188-1229: the two output files are removed, then the 16S
\* extraction over all_assemblies, the global entry, and sys.exit() with no
\* argument.
Extract ==
    /\ pc = "outcome"
    /\ v > Len(riboSeed_jobs)
    /\ LET res == extract_loop(SUMMARY, <<>>, 0, 1)
       IN  /\ extract16soutput' = res.output
           /\ out_summary' = res.output
           /\ IF res.raised # None
              THEN /\ SUMMARY' = res.SUMMARY
                   /\ pc' = res.raised
                   /\ UNCHANGED exit_code
              ELSE /\ SUMMARY' =
                         IF res.n_extracted_seqs = 0
                         THEN write_pass_fail(res.SUMMARY, "FAIL", "global",
                                  "No 16s sequences detected in re-assemblies")
                         ELSE write_pass_fail(res.SUMMARY, "PASS", "global", "")
                   /\ sys_exit(<<>>)
    /\ UNCHANGED <<filtered_sras, update, call, config, args, env, genv,
                   updated_args, i, status_file, history, disk, riboSeed_jobs,
                   pooled, v, all_assemblies>>

\* ---------------------------------------------------------- specifications
Steps ==
    \/ GlobalChecks \/ CompareConfig \/ CheckReferences
    \/ NextAccession \/ UseExisting \/ Download \/ ReadLength
    \/ Reference \/ Pob \/ Distance \/ Taxonomy \/ Kraken2 \/ Report
    \/ Trimmed \/ Sickle \/ Downsampled \/ Downsample \/ RiboSeedJob
    \/ StartPool
    \/ (\E k \in 1..Cardinality(Accessions) : WorkerTakes(k))
    \/ (\E k \in 1..Cardinality(Accessions) : WorkerReturns(k))
    \/ Join
    \/ Outcome \/ Extract

Next == StartRun \/ Rerun \/ Terminate \/ Steps

\* Invocations over one accession, with every fault and every command line.
Spec == Init /\ [][Next]_vars

NextBatch == StartRunBatch \/ Rerun \/ Terminate \/ Steps

\* Invocations over a batch of two accessions, with the faults of BatchFaults.
SpecBatch == InitBatch /\ [][NextBatch]_vars

NextErrors == StartRunErrors \/ Rerun \/ Terminate \/ Steps

\* Invocations with the default command line over a batch of two accessions,
\* with every fault.
SpecErrors == InitBatch /\ [][NextErrors]_vars

NextAssembly == StartRunAssembly \/ Rerun \/ Terminate \/ Steps

\* Invocations over a batch of two accessions, with the default command line
\* but for the size of the pool, and with the faults of AssemblyFaults.
SpecAssembly == InitBatch /\ [][NextAssembly]_vars

\* the command lines of the interruption specification: every --maxcov
InterruptedArgs == {[NoArgs EXCEPT !.maxcov = m] : m \in MaxcovValues}

StartRunInterrupted == Start(InterruptedArgs, {"none"})

\* The process is killed from outside, between two steps of main.
Interrupt ==
    /\ pc \notin {"idle", "exit", "KeyError", "NameError", "IndexError",
                  "killed"}
    /\ pc' = "killed"
    /\ UNCHANGED <<filtered_sras, update, call, extract16soutput, out_summary,
                   config, disk, SUMMARY, args, env, genv, i, status_file,
                   updated_args, riboSeed_jobs, pooled, v, all_assemblies,
                   exit_code, history>>

\* An empty output directory and a batch of two accessions, with the history
\* of their assemblies kept.
InitInterrupted ==
    /\ filtered_sras = <<"A", "B">>
    /\ update = NoUpdate
    /\ call = NoCall
    /\ assembled_with = [a \in Accessions |-> <<>>]
    /\ extract16soutput = <<>>
    /\ out_summary = <<>>
    /\ InitCommon

NextInterrupted ==
    StartRunInterrupted \/ Rerun \/ Terminate \/ Steps \/ Interrupt

\* Invocations over a batch of two accessions that differ in --maxcov and
\* that may be killed at any step.
SpecInterrupted == InitInterrupted /\ [][NextInterrupted]_vars

NextArgs == StartRunArgs \/ Rerun \/ Terminate \/ Steps

\* Invocations on an output directory whose config file an earlier invocation
\* left with any content.
SpecArgs == InitArgs /\ [][NextArgs]_vars

\* ---------------------------------- update_status_file, by steps: actions
\* everything but the call of update_status_file
pipeline ==
    <<filtered_sras, extract16soutput, out_summary, config, status,
      best_reference, report, contigs, assembled_with, SUMMARY,
      args, env, genv, pc, i, status_file, updated_args, riboSeed_jobs, pooled,
      v, all_assemblies, exit_code, n_compared, at_start, same_as_last>>

\* lines 310-312: the call, as the program makes it (a marker to add, or
\* markers to remove), and the reading of the file
CallUpdate ==
    /\ update.pc = "idle"
    /\ \E to_remove \in SUBSET Markers, message \in Markers \cup {None} :
          /\ (to_remove = {}) # (message = None)
          /\ update' = [update EXCEPT
                !.pc = "parsed", !.before = update.path,
                !.to_remove = to_remove, !.message = message,
                !.statuses = statuses_in(update.path), !.buffer = <<>>]
    /\ UNCHANGED <<call, pipeline>>

\* lines 313-318: os.remove unless nothing was read; message appended
RemovePath ==
    /\ update.pc = "parsed"
    /\ update' = [update EXCEPT
          !.pc = "removed",
          !.path = IF update.statuses # <<>> THEN NoStatusFile ELSE @,
          !.statuses = IF update.message # None
                       THEN Append(@, update.message) ELSE @]
    /\ UNCHANGED <<call, pipeline>>

\* lines 319-322: open(path, "w") leaves an empty file; the loop writes the
\* statuses that stay to the file object's buffer
OpenPath ==
    /\ update.pc = "removed"
    /\ \E order \in set(update.statuses) :
          update' = [update EXCEPT
              !.pc = "open",
              !.path = File(<<>>),
              !.buffer = SelectSeq(order,
                              LAMBDA st : st \notin update.to_remove)]
    /\ UNCHANGED <<call, pipeline>>

\* the end of the with block: the buffer goes to the file
ClosePath ==
    /\ update.pc = "open"
    /\ update' = [update EXCEPT !.pc = "done", !.path = File(update.buffer)]
    /\ UNCHANGED <<call, pipeline>>

\* update_status_file returns
ReturnUpdate ==
    /\ update.pc = "done"
    /\ update' = [NoUpdate EXCEPT !.path = update.path]
    /\ UNCHANGED <<call, pipeline>>

\* the process dies inside update_status_file
CrashUpdate ==
    /\ update.pc \in {"parsed", "removed", "open"}
    /\ update' = [update EXCEPT !.pc = "crashed"]
    /\ UNCHANGED <<call, pipeline>>

\* a later invocation finds the file as the crash left it
RestartUpdate ==
    /\ update.pc = "crashed"
    /\ update' = [NoUpdate EXCEPT !.path = update.path]
    /\ UNCHANGED <<call, pipeline>>

NextStatusFile ==
    \/ CallUpdate \/ RemovePath \/ OpenPath \/ ClosePath \/ ReturnUpdate
    \/ CrashUpdate \/ RestartUpdate

\* One status file under any sequence of calls of update_status_file, each
\* of which may be cut short.
SpecStatusFile == Init /\ [][NextStatusFile]_vars

\* ------------------------------------------------ the functions, by calls
\* The arguments get_coverage is called with: reads of 75, 100 or 150 bases,
\* single or paired (the mate file has as many lines), four lines to a read.
ReadLengths == {75, 100, 150}
GenomeLengths == {1000, 5000000}
ReadCounts == {1, 4, 25, 250, 100000}
CoverageCalls ==
    {[fn |-> "get_coverage", result |-> <<>>,
      args |-> [read_length |-> l, approx_length |-> g, fastq1 |-> <<4 * n>>,
                fastq2 |-> IF paired THEN <<4 * n>> ELSE NoMate]] :
        l \in ReadLengths, g \in GenomeLengths, n \in ReadCounts,
        paired \in BOOLEAN}

\* A string is the tuple of its characters.
\* str.replace(old, new): the occurrences of old, left to right
RECURSIVE replace(_, _, _)
replace(string, old, new) ==
    IF Len(string) < Len(old) THEN string
    ELSE IF SubSeq(string, 1, Len(old)) = old
    THEN new \o replace(SubSeq(string, Len(old) + 1, Len(string)), old, new)
    ELSE <<string[1]>> \o replace(Tail(string), old, new)

\* the rank codes of parse_kraken_report, line 566
Ranks == {"R", "D", "P", "C", "O", "F", "G", "S"}

\* the entry of a rank without a hit, line 565
empty == <<0, "-", <<>>>>

\* extract_16s_from_assembly, lines 743-754: the label of the sequences,
\* from the (percentage, taxon id, label) of each rank
tax_string(tax_d) ==
    LET blank(string) == Len(replace(string, <<" ">>, <<>>)) = 0
        species == tax_d["S"][3]
        genus == tax_d["G"][3] \o <<"s", "p", ".">>
    IN  IF ~blank(species) THEN species
        ELSE IF Len(replace(replace(genus, <<" ">>, <<>>),
                            <<".", "s", "p">>, <<>>)) # 0 THEN genus
        ELSE IF ~blank(tax_d["F"][3]) THEN tax_d["F"][3]
        ELSE IF ~blank(tax_d["O"][3]) THEN tax_d["O"][3]
        ELSE IF ~blank(tax_d["C"][3]) THEN tax_d["C"][3]
        ELSE tax_d["P"][3]

\* The labels a report gives a rank: none, or one of the rank (stripped, as
\* parse_kraken_report leaves it); a species label has a space inside.
Labels(rank) ==
    {<<>>, <<rank>>} \cup (IF rank = "S" THEN {<<"E", " ", "c">>} ELSE {})
LabelCalls ==
    {[fn |-> "tax_string", result |-> <<>>,
      args |-> [r \in Ranks |->
                  LET label == [P |-> p, C |-> c, O |-> o, F |-> f, G |-> g,
                                S |-> s, R |-> <<"R">>, D |-> <<"D">>][r]
                  IN  IF r \in {"R", "D"} THEN <<95, "2", label>>
                      ELSE IF label = <<>> THEN empty
                      ELSE <<60, "561", label>>]] :
        p \in Labels("P"), c \in Labels("C"), o \in Labels("O"),
        f \in Labels("F"), g \in Labels("G"), s \in Labels("S")}

\* The arguments of the downsampling stage of process_strain: the status
\* file of the item, its trimmed reads (100 bases a read, for a genome of 1000
\* bases: 10x, 15x, 37.5x, 50x, 75x or 100x single, twice that paired),
\* --maxcov, and whether seqtk fails.
TrimmedReads == {<<401>>, <<601>>, <<1501>>, <<2001>>, <<3001>>, <<4001>>}
DownsampleCalls ==
    {[fn |-> "downsample", result |-> <<>>,
      args |-> [status_file |-> file, fastq1 |-> f,
                fastq2 |-> IF paired THEN f ELSE NoMate,
                maxcoverage |-> m, fault |-> fault]] :
        file \in {{TRIMMED}, {TRIMMED, DOWNSAMPLED},
                  {TRIMMED, DOWNSAMPLED, RIBOSEED_COMPLETE}},
        f \in TrimmedReads, paired \in BOOLEAN, m \in MaxcovValues,
        fault \in {"none", "seqtk"}}

\* str.strip(): without the white space at its ends
strip(string) ==
    LET inked == {n \in DOMAIN string : string[n] \notin {" ", "\n"}}
    IN  IF inked = {} THEN <<>>
        ELSE SubSeq(string,
                    CHOOSE n \in inked : \A m \in inked : n <= m,
                    CHOOSE n \in inked : \A m \in inked : m <= n)

\* (a parse that keeps the last of the lines of a rank that tie)
RECURSIVE parse_lines_last(_, _, _)
parse_lines_last(inf, n, tax) ==
    IF n > Len(inf) THEN [raised |-> None, tax |-> tax]
    ELSE LET sline == inf[n]
         IN  IF Len(sline) # 6 THEN [raised |-> "ValueError", tax |-> tax]
             ELSE parse_lines_last(inf, n + 1,
                      IF sline[4] \in DOMAIN tax
                             /\ tax[sline[4]][1] <= sline[1]
                      THEN [tax EXCEPT ![sline[4]] =
                               <<sline[1], sline[5], strip(sline[6])>>]
                      ELSE tax)

\* parse_kraken_report, lines 574-586: the loop over the lines of the report
\* from line n on.  A line is the tuple of its columns, line.split("\t"):
\* perc (in hundredths), n_in, n_at, lev, taxid, label.
RECURSIVE parse_lines(_, _, _)
parse_lines(inf, n, tax) ==
    IF n > Len(inf) THEN [raised |-> None, tax |-> tax]
    ELSE LET sline == inf[n]
             perc == sline[1]
             lev == sline[4]
             taxid == sline[5]
             label == sline[6]
             this == <<perc, taxid, strip(label)>>
         IN  IF Len(sline) # 6 THEN [raised |-> "ValueError", tax |-> tax]
             ELSE parse_lines(inf, n + 1,
                      IF lev \in DOMAIN tax /\ tax[lev][1] < this[1]
                      THEN [tax EXCEPT ![lev] = this]
                      ELSE tax)

\* parse_kraken_report, lines 560-587: what it raised (None when it returned)
\* and the entry of each rank
parse_kraken_report(kraken2_report) ==
    parse_lines(kraken2_report, 1, [r \in Ranks |-> empty])

\* The reports: up to MaxReport lines, each a hit of 0, 50 or 90 percent for
\* the genus, the species or a subspecies rank, of one of two taxa (the label
\* column indented and ended by the line end), or a line of five columns.
Name(taxid) == IF taxid = "561" THEN <<"E">> ELSE <<"E", " ", "c">>
ReportLines ==
    {<<perc, "10", "5", lev, taxid, <<" ", " ">> \o Name(taxid) \o <<"\n">>>> :
        perc \in {0, 5000, 9000}, lev \in {"G", "S", "S1"},
        taxid \in {"561", "562"}}
    \cup {<<5000, "10", "5", "S", "562">>}
ReportCalls ==
    {[fn |-> "parse_kraken_report", result |-> <<>>, args |-> inf] :
        inf \in UNION {[1..n -> ReportLines] : n \in 0..MaxReport}}

\* A pure function is called once, with arguments of the sets above.
InitCalls ==
    /\ filtered_sras = <<"A">>
    /\ update = NoUpdate
    /\ extract16soutput = <<>>
    /\ out_summary = <<>>
    /\ assembled_with = <<>>
    /\ InitCommon
    /\ \/ call \in CoverageCalls
       \/ call \in LabelCalls
       \/ call \in DownsampleCalls
       \/ call \in ReportCalls

\* lines 435-452: get_coverage returns
Return_get_coverage ==
    /\ call.fn = "get_coverage"
    /\ call.result = <<>>
    /\ call' = [call EXCEPT !.result =
          <<get_coverage(call.args.read_length, call.args.approx_length,
                         call.args.fastq1, call.args.fastq2)>>]
    /\ UNCHANGED <<update, pipeline>>

\* lines 743-754: the label is computed
Return_tax_string ==
    /\ call.fn = "tax_string"
    /\ call.result = <<>>
    /\ call' = [call EXCEPT !.result = <<tax_string(call.args)>>]
    /\ UNCHANGED <<update, pipeline>>

\* process_strain, lines 677-691: the downsampling stage returns or raises
Return_downsample ==
    /\ call.fn = "downsample"
    /\ call.result = <<>>
    /\ LET file == not_downsampled(call.args.status_file)
           res == downsample(ave_read_len, genome_length,
                             call.args.fastq1, call.args.fastq2,
                             mincov, call.args.maxcoverage, call.args.fault,
                             DOWNSAMPLED \notin parse_status_file(file))
       IN  call' = [call EXCEPT !.result =
               <<[raised |-> res.raised, commands |-> res.commands,
                  paths |-> res.paths,
                  status_file |-> downsampled(file, res)]>>]
    /\ UNCHANGED <<update, pipeline>>

\* lines 560-587: parse_kraken_report returns or raises
Return_parse_kraken_report ==
    /\ call.fn = "parse_kraken_report"
    /\ call.result = <<>>
    /\ call' = [call EXCEPT !.result = <<parse_kraken_report(call.args)>>]
    /\ UNCHANGED <<update, pipeline>>

NextCalls ==
    \/ Return_get_coverage
    \/ Return_tax_string
    \/ Return_downsample
    \/ Return_parse_kraken_report

\* Each function on each of its arguments.
SpecCalls == InitCalls /\ [][NextCalls]_vars

\* -------------------------------------------------------------- properties
\* the accessions of the batch
Batch == {filtered_sras[k] : k \in DOMAIN filtered_sras}

\* the comparison of this invocation has been made and has returned
Compared == n_compared = 1 /\ pc # "KeyError"

\* main is inside the loop, at an accession
AtAccession ==
    pc \in {"existing", "download", "readlen", "ps_reference", "pob",
            "ps_distance", "ps_taxonomy", "kraken2", "ps_report", "ps_trimmed",
            "run_sickle", "ps_downsampled", "downsample", "ps_riboseed"}

\* C1: in every state of every status file, over any sequence of invocations
\* with any stage failing and any of maxdist, maxcov, subassembler changing,
\* DOWNSAMPLED is there only if TRIMMED is.
C1_DownsampledOnlyIfTrimmed ==
    \A a \in Accessions : DOWNSAMPLED \in status[a] => TRIMMED \in status[a]

\* C1, its case: --maxcov changed, DOWNSAMPLED was removed and the stage has
\* set it again.
C1_Witness ==
    /\ pc = "exit"
    /\ "maxcov" \in updated_args
    /\ DOWNSAMPLED \in at_start.status["A"]
    /\ DOWNSAMPLED \in status["A"]
    /\ TRIMMED \in status["A"]

\* the markers of the stages strictly after the stage named
After(stage) ==
    CASE stage = "reference" ->
             {TAXONOMY, TRIMMED, DOWNSAMPLED, RIBOSEED_COMPLETE}
      [] stage = "taxonomy" -> {TRIMMED, DOWNSAMPLED, RIBOSEED_COMPLETE}
      [] stage = "trimming" -> {DOWNSAMPLED, RIBOSEED_COMPLETE}
      [] stage = "downsampling" -> {RIBOSEED_COMPLETE}

\* C2: whenever process_strain is about to run the operation of a stage it
\* recomputes (plentyofbugs, kraken2, the trimmer, the sampler), no marker of
\* a later stage is in the accession's status file.
C2_LaterMarkersAbsentBeforeStage ==
    /\ pc = "pob" => status[accession] \cap After("reference") = {}
    /\ pc = "kraken2" => status[accession] \cap After("taxonomy") = {}
    /\ (pc = "run_sickle" /\ TRIMMED \notin status[accession])
          => status[accession] \cap After("trimming") = {}
    /\ (pc = "downsample" /\ DOWNSAMPLED \notin status[accession])
          => status[accession] \cap After("downsampling") = {}

\* C3: when an invocation has ended, a status file holds RIBOSEED COMPLETE
\* only if the riboSeedContigs.fasta of the same accession exists.
C3_CompleteOnlyWithContigs ==
    pc = "exit" =>
        \A a \in Batch : RIBOSEED_COMPLETE \in status[a] => contigs[a]

\* the PASS/FAIL/ERROR statuses a ledger records for an accession
Statuses(ledger, a) ==
    {ledger[n].status : n \in {m \in DOMAIN ledger : ledger[m].stage = a}}

\* C4: an invocation that repeats, with the same inputs and command line, one
\* that ran to its end leaves every status file as that one left it, and its
\* SUMMARY records the same statuses for every accession.
C4_SecondRunIdempotent ==
    (pc = "exit" /\ same_as_last) =>
        \A a \in Batch :
            /\ status[a] = at_start.status[a]
            /\ Statuses(SUMMARY, a) = Statuses(at_start.SUMMARY, a)

\* the stage of accession a was complete when the invocation started: its
\* marker set and its output there (plentyofbugs has no marker but its
\* best_reference file; trimmed and downsampled reads stay where they are)
CompleteAtStart(stage, a) ==
    CASE stage = "reference" -> at_start.best_reference[a] # NoFile
      [] stage = "taxonomy" ->
             TAXONOMY \in at_start.status[a] /\ at_start.report[a] # "absent"
      [] stage = "trimming" -> TRIMMED \in at_start.status[a]
      [] stage = "downsampling" -> DOWNSAMPLED \in at_start.status[a]
      [] stage = "assembly" ->
             RIBOSEED_COMPLETE \in at_start.status[a] /\ at_start.contigs[a]

\* no tool is being invoked, or is to be invoked by the pool, for a stage that
\* was complete when the invocation started
NoToolForCompleteStage ==
    /\ pc = "pob" => ~CompleteAtStart("reference", accession)
    /\ pc = "kraken2" => ~CompleteAtStart("taxonomy", accession)
    /\ (pc = "run_sickle" /\ TRIMMED \notin status[accession])
          => ~CompleteAtStart("trimming", accession)
    /\ (pc = "downsample" /\ DOWNSAMPLED \notin status[accession])
          => ~CompleteAtStart("downsampling", accession)
    /\ \A k \in DOMAIN riboSeed_jobs :
          riboSeed_jobs[k].cmd
              => ~CompleteAtStart("assembly", riboSeed_jobs[k].acc)

\* C5, as stated: in an invocation whose comparison reported no changed
\* argument, no tool is invoked for a stage whose marker was set and whose
\* output was there at the start.
C5_Original ==
    (Compared /\ updated_args = {}) => NoToolForCompleteStage

\* C5, amended: the same, for the invocations without --redo_assembly.
C5_NoToolForCompleteStage ==
    (Compared /\ updated_args = {} /\ ~args.redo_assembly)
        => NoToolForCompleteStage

\* C5, its case: nothing changed, the assembly is complete and the accession
\* gets its job without a command.
C5_Witness ==
    /\ Compared /\ updated_args = {} /\ ~args.redo_assembly
    /\ pc = "pool"
    /\ CompleteAtStart("assembly", "A")
    /\ \E k \in DOMAIN riboSeed_jobs :
          riboSeed_jobs[k].acc = "A" /\ ~riboSeed_jobs[k].cmd

\* every line of the file has the key:value shape
Parsable(file) ==
    file.exists /\ \A n \in DOMAIN file.lines : Len(file.lines[n]) = 2

\* the file holds a value for every recognized key
HoldsAll(file) ==
    \A key \in {"maxdist", "subassembler", "maxcov"} :
        \E n \in DOMAIN file.lines : file.lines[n][1] = key

\* line n is the one that gives the file's value for key
Gives(file, n, key) ==
    /\ file.lines[n][1] = key
    /\ \A m \in DOMAIN file.lines : m > n => file.lines[m][1] # key

\* C6: when the config file is there and holds a value for every recognized
\* key, different_args returns exactly the keys whose current value, as a
\* string, differs from the stored one.
C6_ExactlyTheChangedKeys ==
    (n_compared = 1 /\ Parsable(at_start.config) /\ HoldsAll(at_start.config))
        => /\ pc # "KeyError"
           /\ updated_args \subseteq {"maxdist", "subassembler", "maxcov"}
           /\ \A key \in {"maxdist", "subassembler", "maxcov"} :
                 key \in updated_args <=>
                    \E n \in DOMAIN at_start.config.lines :
                        /\ Gives(at_start.config, n, key)
                        /\ at_start.config.lines[n][2] # str(key, args[key])

\* C6, its case: a stored maxdist that differs and a stored maxcov that does
\* not; exactly maxdist is returned.
C6_Witness ==
    /\ n_compared = 1 /\ pc = "references"
    /\ Parsable(at_start.config) /\ HoldsAll(at_start.config)
    /\ at_start.config.lines # config.lines
    /\ updated_args = {"maxdist"}

\* C7: when the config file is absent, empty, has a line without the
\* key:value shape or lacks a recognized key, every recognized key is taken
\* as changed and the invocation goes on.
C7_UnreadableConfigMeansAllChanged ==
    (n_compared = 1 /\ ~(Parsable(at_start.config) /\ at_start.config.lines # <<>>
                            /\ HoldsAll(at_start.config)))
        => /\ pc # "KeyError"
           /\ updated_args = {"maxdist", "subassembler", "maxcov"}

\* the file that holds the current values of the recognized keys, and nothing
\* else
HoldsCurrent(file) ==
    /\ file.exists
    /\ Len(file.lines) = 3
    /\ \A key \in {"maxdist", "subassembler", "maxcov"} :
          \E n \in DOMAIN file.lines :
              file.lines[n] = <<key, str(key, args[key])>>

C9_Original ==
    /\ n_compared <= 1
    /\ pc \in {"exit", "loop", "pool", "outcome"} \/ AtAccession
          => n_compared = 1

\* C9, amended: an invocation makes the comparison at most once; one that gets
\* past the check of the accession list and of the reference genomes makes it
\* exactly once, before any stage operation and before any pool worker.
C9_ComparedOnceBeforeStages ==
    /\ n_compared <= 1
    /\ pc \in {"loop", "pool", "outcome"} \/ AtAccession => n_compared = 1
    /\ (pc = "exit" /\ genv \notin {"noSRA", "noRef"}) => n_compared = 1
    /\ (pc = "exit" /\ genv \in {"noSRA", "noRef"}) => n_compared = 0

\* C9, its case: plentyofbugs is about to run, after the one comparison.
C9_Witness == pc = "pob" /\ n_compared = 1 /\ updated_args = {"maxdist"}

\* the markers that depend on the changed arguments (main, lines 1025-1035)
Dependent(updated) ==
    (IF "maxdist" \in updated THEN {RIBOSEED_COMPLETE} ELSE {})
    \cup (IF "maxcov" \in updated
          THEN {DOWNSAMPLED, RIBOSEED_COMPLETE} ELSE {})
    \cup (IF "subassembler" \in updated THEN {RIBOSEED_COMPLETE} ELSE {})

\* C10: when a changed argument is reported, the markers that depend on it
\* are gone from the status files of all the accessions of the batch before
\* the stages of any accession begin.
C10_AllInvalidatedBeforeStages ==
    (Compared /\ i = 1 /\ pc = "download") =>
        \A a \in Batch : status[a] \cap Dependent(updated_args) = {}

\* the step of main that invalidates the markers of the accession it is at
Invalidating == pc = "loop" /\ pc' = "existing"

\* C11: the invalidation after the changed arguments removes only the markers
\* that depend on them: exactly DOWNSAMPLED and RIBOSEED COMPLETE when only
\* --maxcov changed, exactly RIBOSEED COMPLETE when only --subassembler
\* changed, never TAXONOMY or TRIMMED, and nothing when no argument changed;
\* it adds no marker and leaves the other status files alone.
C11_OnlyDependentMarkersRemoved ==
    [][Invalidating =>
          LET a == filtered_sras[i]
              removed == status[a] \ status'[a]
          IN  /\ \A b \in Accessions \ {a} : status'[b] = status[b]
              /\ status'[a] \subseteq status[a]
              /\ TAXONOMY \notin removed /\ TRIMMED \notin removed
              /\ updated_args = {} => removed = {}
              /\ updated_args = {"maxcov"} =>
                    removed = status[a] \cap {DOWNSAMPLED, RIBOSEED_COMPLETE}
              /\ updated_args = {"subassembler"} =>
                    removed = status[a] \cap {RIBOSEED_COMPLETE}]_vars

\* C11, its case: only --maxcov changed, and the invalidation has taken
\* DOWNSAMPLED and RIBOSEED COMPLETE from a complete status file.
C11_Witness ==
    /\ pc = "existing"
    /\ updated_args = {"maxcov"}
    /\ at_start.status["A"] = Markers
    /\ status["A"] = {TAXONOMY, TRIMMED}

\* the markers a status file holds
Held(path) == {statuses_in(path)[k] : k \in DOMAIN statuses_in(path)}

\* C12: a crash at any point of update_status_file leaves the status file
\* holding either the markers it held before the call or the markers it is
\* to hold after it, and no marker that the call does not remove is lost.
C12_CrashLeavesBeforeOrAfter ==
    update.pc = "crashed" =>
        LET M == Held(update.before)
            after == IF update.message # None
                     THEN M \cup {update.message}
                     ELSE M \ update.to_remove
        IN  /\ Held(update.path) \in {M, after}
            /\ M \ update.to_remove \subseteq Held(update.path)

\* C13: for a status file holding M, update_status_file with a message m
\* leaves exactly M with m added, and with markers to remove R leaves exactly
\* M without R; a missing file reads as no marker; and after any sequence of
\* calls no marker is in the file twice.
C13_MarkerAlgebra ==
    /\ update.pc = "done" =>
          Held(update.path) =
              IF update.message # None
              THEN Held(update.before) \cup {update.message}
              ELSE Held(update.before) \ update.to_remove
    /\ (update.pc = "parsed" /\ ~update.before.exists)
          => update.statuses = <<>>
    /\ update.pc \in {"idle", "done"} =>
          \A j, k \in DOMAIN update.path.lines :
              j # k => update.path.lines[j] # update.path.lines[k]

\* C13, its case: TRIMMED is marked again in a file that holds it already
\* (process_strain does so on every resumed run), and is there once.
C13_Witness ==
    /\ update.pc = "done"
    /\ update.message = TRIMMED
    /\ TRIMMED \in Held(update.before)
    /\ Held(update.path) = {TAXONOMY, TRIMMED}

\* the typed failure that the accession at hand is about to meet: the
\* download error, bestreferenceError, referenceNotGoodEnoughError,
\* kraken2Error, coverageError or downsamplingError
TypedFailure ==
    \/ pc = "download" /\ env[accession] = "dl"
    \/ pc = "pob" /\ env[accession] = "pob"
    \/ pc = "pob" /\ env[accession] = "far" /\ args.maxdist < 8
    \/ pc = "ps_distance" /\ args.maxdist < best_reference[accession][1]
    \/ pc = "kraken2" /\ env[accession] = "kr"
    \/ pc = "ps_report" /\ report[accession] = "empty"
    \/ /\ pc = "downsample" /\ DOWNSAMPLED \notin status[accession]
       /\ \/ env[accession] = "covLow"
          \/ env[accession] = "seqtk" /\ args.maxcov < 75

\* the notes main gives to the typed failures
TypedNotes ==
    {"Error downloading", "Unknown error selecting reference",
     "No reference meets threshold for re-assembly",
     "Unknown error runing kraken2", "Insufficient coverage",
     "Unknown error downsampling"}

\* the entries a ledger holds for an accession
Entries(ledger, a) == {n \in DOMAIN ledger : ledger[n].stage = a}

\* C14: at a typed stage failure of an accession, main appends one entry for
\* it to SUMMARY, appends no job, and goes to the next accession of the batch;
\* when the loop is over, an accession that failed so has exactly one entry
\* and no job.
C14_TypedFailureRecordedOnce ==
    /\ [][TypedFailure =>
             /\ Len(SUMMARY') = Len(SUMMARY) + 1
             /\ SubSeq(SUMMARY', 1, Len(SUMMARY)) = SUMMARY
             /\ SUMMARY'[Len(SUMMARY')].stage = accession
             /\ SUMMARY'[Len(SUMMARY')].status \in {"FAIL", "ERROR"}
             /\ riboSeed_jobs' = riboSeed_jobs
             /\ pc' = "loop" /\ i' = i + 1]_vars
    /\ [](pc \in {"pool", "outcome", "exit"} =>
             \A a \in Batch :
                 (\E n \in Entries(SUMMARY, a) : SUMMARY[n].note \in TypedNotes)
                     => /\ Cardinality(Entries(SUMMARY, a)) = 1
                        /\ \A k \in DOMAIN riboSeed_jobs :
                               riboSeed_jobs[k].acc # a)

\* C14, its case: the first accession met a kraken2Error and the second one
\* is being processed.
C14_Witness ==
    /\ pc = "kraken2" /\ i = 2
    /\ Len(SUMMARY) = 1
    /\ SUMMARY[1] = [status |-> "ERROR", stage |-> "A",
                     note |-> "Unknown error runing kraken2"]
    /\ riboSeed_jobs = <<>>

\* C15: an exception of process_strain that is none of the typed errors (here
\* the trimmer raising) does not end the invocation: the accession is
\* recorded as FAIL, the other accessions are processed and the invocation
\* reaches its global entry.
C15_UntypedFailureCaught ==
    /\ pc # "NameError"
    /\ (pc = "exit" /\ genv = "none") =>
          /\ \A a \in Batch : Entries(SUMMARY, a) # {}
          /\ Entries(SUMMARY, "global") # {}

\* the ledger holds a rejection of the accession: its best reference is
\* farther than --maxdist, or its coverage is under --mincov
Rejected(ledger, a) ==
    \E n \in Entries(ledger, a) :
        ledger[n].note \in {"No reference meets threshold for re-assembly",
                            "Insufficient coverage"}

\* C16: an accession rejected for the distance of its best reference or for
\* its coverage is recorded as FAIL, goes through no later stage and gets no
\* job in that invocation; and the invocation that repeats it rejects the
\* accession again, as FAIL, without running plentyofbugs for it.
C16_RejectedStaysRejected ==
    \A a \in Batch :
        /\ Rejected(SUMMARY, a) =>
              /\ Statuses(SUMMARY, a) = {"FAIL"}
              /\ AtAccession => accession # a
              /\ \A k \in DOMAIN riboSeed_jobs : riboSeed_jobs[k].acc # a
        /\ (same_as_last /\ Rejected(at_start.SUMMARY, a)) =>
              /\ (AtAccession /\ accession = a) => pc # "pob"
              /\ pc = "exit" =>
                    Rejected(SUMMARY, a) /\ Statuses(SUMMARY, a) = {"FAIL"}

\* the ledger holds the rejection of the accession for its read length
ReadLengthRejected(ledger, a) ==
    \E n \in Entries(ledger, a) :
        ledger[n].note = "Reads were shorter than 65bp threshold"

\* C17: an accession whose average read length is out of bounds is rejected
\* before any stage of process_strain runs for it, gets no job, and is
\* recorded in SUMMARY as FAIL.
C17_ReadLengthRejectedAsFail ==
    \A a \in Batch :
        ReadLengthRejected(SUMMARY, a) =>
            /\ Statuses(SUMMARY, a) = {"FAIL"}
            /\ AtAccession => accession # a
            /\ \A k \in DOMAIN riboSeed_jobs : riboSeed_jobs[k].acc # a

\* the ledger holds, for the accession, the error of the tool that exited
\* non-zero for it: plentyofbugs, kraken2 (which then leaves no report, unlike
\* the kraken2 that leaves an empty one) or seqtk
ToolError(ledger, reports, a) ==
    \E n \in Entries(ledger, a) :
        \/ env[a] = "pob"
           /\ ledger[n].note = "Unknown error selecting reference"
        \/ env[a] = "kr" /\ reports[a] = "absent"
           /\ ledger[n].note = "Unknown error runing kraken2"
        \/ env[a] = "seqtk" /\ ledger[n].note = "Unknown error downsampling"

\* C18: when plentyofbugs, kraken2 or seqtk exits non-zero for an accession,
\* the accession is recorded as ERROR, the stage is unmarked when the
\* invocation ends (no best_reference, no TAXONOMY, no DOWNSAMPLED), and the
\* next invocation runs the tool for the accession again.
C18_ToolErrorIsRetried ==
    \A a \in Batch :
        /\ ToolError(SUMMARY, report, a) =>
              /\ Statuses(SUMMARY, a) = {"ERROR"}
              /\ pc = "exit" =>
                    /\ env[a] = "pob" => best_reference[a] = NoFile
                    /\ env[a] = "kr" => TAXONOMY \notin status[a]
                    /\ env[a] = "seqtk" => DOWNSAMPLED \notin status[a]
        /\ (/\ same_as_last /\ pc = "exit"
            /\ ToolError(at_start.SUMMARY, at_start.report, a))
              => ToolError(SUMMARY, report, a)

\* the command of job k was run by its worker and exited non-zero
ExitedNonZero(k) ==
    riboSeed_jobs[k].cmd /\ env[riboSeed_jobs[k].acc] = "riboErr"

\* the jobs whose worker has returned
Ready == {k \in DOMAIN pooled : pooled[k].ready}

\* slot 4 of job k as its worker left it
Code(k) == pooled[k].writes[Len(pooled[k].writes)]

\* C19: once a pool worker has finished a job, the outcome code of the job
\* (slot 4 of the job, as the worker leaves it) is the failure value 1
\* exactly if the command exited non-zero, and is 0 if the command exited zero
\* or was None.
C19_OutcomeCodeTellsExit ==
    \A k \in Ready :
        /\ Code(k) = "1" <=> ExitedNonZero(k)
        /\ ~ExitedNonZero(k) => Code(k) = "0"

\* the entries of SUMMARY the reconciliation wrote for the accession (a
\* worker writes its own entry when its command fails)
Verdicts(ledger, a) ==
    {n \in Entries(ledger, a) :
        ledger[n].note # "Unknown failure running riboSeed"}

\* C20: when the reconciliation after the pool is over, it has given the
\* accession of every job exactly one entry in SUMMARY: PASS, with RIBOSEED
\* COMPLETE in its status file, if its contigs exist; ERROR if they do not
\* and its command exited non-zero; FAIL if they do not and its command
\* exited zero.
C20_OneVerdictPerJob ==
    pc = "exit" =>
        \A k \in DOMAIN riboSeed_jobs :
            LET a == riboSeed_jobs[k].acc
                given == {SUMMARY[n].status : n \in Verdicts(SUMMARY, a)}
            IN  /\ Cardinality(Verdicts(SUMMARY, a)) = 1
                /\ contigs[a] =>
                      given = {"PASS"} /\ RIBOSEED_COMPLETE \in status[a]
                /\ (~contigs[a] /\ ExitedNonZero(k)) => given = {"ERROR"}
                /\ (~contigs[a] /\ ~ExitedNonZero(k)) => given = {"FAIL"}

\* the entries of SUMMARY with status ERROR for the accession
Errors(ledger, a) ==
    {n \in Entries(ledger, a) : ledger[n].status = "ERROR"}

\* the reconciliation after the pool has gone through every job
Reconciled == pc = "outcome" /\ v > Len(riboSeed_jobs)

\* C21: whatever the order the pool workers finish in, a job whose command
\* exits non-zero leaves the outcome of every other job at 0, and when the
\* pool and its reconciliation are over SUMMARY holds exactly one ERROR entry
\* for each job whose command exited non-zero and none for the other jobs.
C21_PoolOutcomeIsolation ==
    /\ \A k \in Ready : ~ExitedNonZero(k) => Code(k) = "0"
    /\ Reconciled =>
          \A k \in DOMAIN riboSeed_jobs :
              Cardinality(Errors(SUMMARY, riboSeed_jobs[k].acc)) =
                  IF ExitedNonZero(k) THEN 1 ELSE 0

\* the ledger holds the entry a pool worker writes when the riboSeed command
\* of the accession exits non-zero
AssemblyToolError(ledger, a) ==
    \E n \in Entries(ledger, a) :
        ledger[n].note = "Unknown failure running riboSeed"

\* C22: when the riboSeed command of an accession exits non-zero and leaves no
\* contigs, RIBOSEED COMPLETE is not in the accession's status file when the
\* invocation ends, and the invocation that repeats it makes a job for the
\* accession whose command is not None.
C22_AssemblyToolErrorIsRetried ==
    \A a \in Batch :
        /\ (pc = "exit" /\ AssemblyToolError(SUMMARY, a) /\ ~contigs[a])
              => RIBOSEED_COMPLETE \notin status[a]
        /\ (/\ same_as_last /\ pc = "exit"
            /\ AssemblyToolError(at_start.SUMMARY, a)
            /\ ~at_start.contigs[a])
              => \E k \in DOMAIN riboSeed_jobs :
                    riboSeed_jobs[k].acc = a /\ riboSeed_jobs[k].cmd

\* the ledger holds, for the accession, the verdict of a riboSeed command that
\* exited zero and left no contigs
Unsuccessful(ledger, a) ==
    /\ ~AssemblyToolError(ledger, a)
    /\ \E n \in Entries(ledger, a) : ledger[n].note = "riboSeed unsuccessful"

\* C23, as stated: an accession whose riboSeed command exits zero and leaves
\* no contigs is recorded as FAIL, and the invocation that repeats the command
\* line does not run a riboSeed command for it.
C23_Original ==
    \A a \in Batch :
        /\ Unsuccessful(SUMMARY, a) => Statuses(SUMMARY, a) = {"FAIL"}
        /\ (same_as_last /\ Unsuccessful(at_start.SUMMARY, a)) =>
              \A k \in DOMAIN riboSeed_jobs :
                  riboSeed_jobs[k].acc = a => ~riboSeed_jobs[k].cmd

\* C23, amended: the same, the second half for the invocations without
\* --redo_assembly.
C23_UnsuccessfulNotRerun ==
    \A a \in Batch :
        /\ Unsuccessful(SUMMARY, a) => Statuses(SUMMARY, a) = {"FAIL"}
        /\ (/\ same_as_last /\ ~args.redo_assembly
            /\ Unsuccessful(at_start.SUMMARY, a)) =>
              \A k \in DOMAIN riboSeed_jobs :
                  riboSeed_jobs[k].acc = a => ~riboSeed_jobs[k].cmd

\* C23, its case: the command of A exited zero and left no contigs, A was
\* recorded as FAIL, and the repeated invocation has made A's job, without a
\* command, and is at the pool.
C23_Witness ==
    /\ same_as_last /\ ~args.redo_assembly
    /\ env["A"] = "riboNone"
    /\ Unsuccessful(at_start.SUMMARY, "A")
    /\ pc = "pool"
    /\ \E k \in DOMAIN riboSeed_jobs :
          riboSeed_jobs[k].acc = "A" /\ ~riboSeed_jobs[k].cmd

\* C24: the reconciliation after the pool starts, and goes on, only when the
\* worker of every job has returned: while main is in it no job is queued and
\* no worker is running.
C24_ReconciliationAfterPool ==
    pc = "outcome" =>
        /\ Ready = DOMAIN riboSeed_jobs
        /\ running = {}

\* C24, its case: a pool of two workers has run two jobs, and the
\* reconciliation has dealt with the first.
C24_Witness ==
    /\ pc = "outcome"
    /\ args.njobs = 2
    /\ Len(riboSeed_jobs) = 2
    /\ riboSeed_jobs[1].cmd /\ riboSeed_jobs[2].cmd
    /\ v = 2

\* C25: at every moment of the pool, the riboSeed commands being run are at
\* most --njobs, however many jobs there are.
C25_AtMostNjobsCommands ==
    Cardinality({k \in running : riboSeed_jobs[k].cmd}) <= args.njobs

\* C25, its case: more jobs than workers; the one worker of the pool runs the
\* command of the first job and the second job waits.
C25_Witness ==
    /\ pc = "pool"
    /\ args.njobs = 1
    /\ Len(riboSeed_jobs) = 2
    /\ riboSeed_jobs[1].cmd /\ riboSeed_jobs[2].cmd
    /\ running = {1}
    /\ Len(pooled) = 1

\* C26: the worker of a job writes the outcome code of the job (slot 4) at
\* most once, and the code main reads for the job after the pool is the value
\* that worker wrote.
C26_OutcomeWrittenOnce ==
    \A k \in Ready :
        /\ Len(pooled[k].writes) <= 1
        /\ pc = "outcome" => riboSeed_jobs[k].slot4 = Code(k)

\* main is in the loop over the accessions
InLoop ==
    pc \notin {"idle", "sras", "config", "references", "pool", "outcome",
               "exit", "KeyError", "NameError", "IndexError"}

\* C27: the job made for an accession has None as its command if and only if
\* RIBOSEED COMPLETE is in the accession's status file and its contigs exist
\* (as process_strain, or the check for existing results, leaves them); in
\* every other case, marker set and contigs missing among them, it carries
\* the riboSeed command.
C27_NoCommandIffCompleteWithOutput ==
    InLoop =>
        \A k \in DOMAIN riboSeed_jobs :
            LET a == riboSeed_jobs[k].acc
            IN  ~riboSeed_jobs[k].cmd
                    <=> (RIBOSEED_COMPLETE \in status[a] /\ contigs[a])

\* main is over: by sys.exit, or by an exception nothing caught
Terminated == pc \in {"exit", "KeyError", "NameError", "IndexError"}

\* the 16S sequences the extraction got out of the assemblies
Extracted ==
    {n \in DOMAIN all_assemblies :
        env[all_assemblies[n]] \notin {"barrnap", "gff", "no16s"}}

\* C28: when an invocation is over, SUMMARY holds exactly one entry of stage
\* "global", which is its last entry; and if the invocation got to the 16S
\* extraction, the entry is FAIL when no sequence was extracted and PASS
\* otherwise.
C28_OneGlobalEntryLast ==
    Terminated =>
        /\ Entries(SUMMARY, "global") = {Len(SUMMARY)}
        /\ Len(SUMMARY) > 0
        /\ (genv = "none" /\ pc = "exit") =>
              SUMMARY[Len(SUMMARY)].status =
                  IF Extracted = {} THEN "FAIL" ELSE "PASS"

\* the exit status of the process that sys.exit ended: the argument, and 0
\* for sys.exit() without one
ExitStatus == IF exit_code = <<>> THEN 0 ELSE exit_code[1]

\* C29: a process that ends without any 16S sequence extracted (none found in
\* the assemblies, no assembly, or no usable reference genome) ends with a
\* non-zero exit status, and one that extracted a sequence ends with exit
\* status 0, whatever happened to single accessions.
C29_ExitStatusTellsOutput ==
    pc = "exit" =>
        /\ Extracted = {} => ExitStatus # 0
        /\ Extracted # {} => ExitStatus = 0

\* the assemblies for which barrnap fails, or whose annotation the extraction
\* cannot read
ExtractionFailed ==
    {n \in DOMAIN all_assemblies :
        env[all_assemblies[n]] \in {"barrnap", "gff"}}

\* C30: a failure of barrnap or of the extraction for one assembly (a
\* malformed line of the annotation among them) does not end the invocation:
\* it is recorded as ERROR for the accession, the other assemblies are gone
\* through, and the global entry is written.
C30_ExtractionFailureCaught ==
    /\ pc # "IndexError"
    /\ pc = "exit" =>
          \A n \in ExtractionFailed :
              /\ \E e \in Errors(SUMMARY, all_assemblies[n]) :
                    SUMMARY[e].note \in {"Error running barrnap",
                                         "unknown error extracting 16S"}
              /\ Entries(SUMMARY, "global") # {}

\* C31: an invocation starts with an empty SUMMARY, whatever the invocation
\* before left in it, and from then on to its end every step leaves the
\* entries SUMMARY holds as they are and in place, adding at most entries
\* after them.
C31_LedgerEmptiedThenAppendOnly ==
    [][/\ pc' = "sras" => SUMMARY' = <<>>
       /\ pc' \notin {"sras", "idle"} =>
             /\ Len(SUMMARY) <= Len(SUMMARY')
             /\ SubSeq(SUMMARY', 1, Len(SUMMARY)) = SUMMARY]_vars

\* C31, its case: the invocation before left entries in SUMMARY, and the
\* invocation that repeats it has written an entry of its own and is over.
C31_Witness ==
    /\ same_as_last
    /\ at_start.SUMMARY # <<>>
    /\ pc = "exit"
    /\ SUMMARY = at_start.SUMMARY
    /\ env["A"] = "dl"

\* the records of a 16S output file that an earlier invocation wrote
FromEarlier(file) == {n \in DOMAIN file : file[n].run = "earlier"}

\* C32: when an invocation is over, whether it went through the extraction or
\* stopped before on a global condition, neither the sequence file nor the
\* summary file holds a record that an earlier invocation wrote.
C32_OutputsHoldNoEarlierRecord ==
    Terminated =>
        /\ FromEarlier(extract16soutput) = {}
        /\ FromEarlier(out_summary) = {}

\* a call of the function has returned
Returned(fn) == call.fn = fn /\ call.result # <<>>

\* two fractions of positive denominators are the same number
SameFraction(f, g) ==
    IF f[2] = g[2] THEN f[1] = g[1] ELSE f[1] * g[2] = g[1] * f[2]

\* the reads of a file of four lines a read
Reads(fastq) == fastq[1] \div 4

\* C33: get_coverage returns reads x read_length / genome_length for
\* single-end reads, the reads being those of the forward file (four lines
\* each), and twice that for paired reads; 100,000 reads of 100 bases for a
\* genome of 5,000,000 give 2.0 single-end and 4.0 paired.
C33_CoverageIsReadsTimesLength ==
    Returned("get_coverage") =>
        LET a == call.args
            single == Reads(a.fastq1) * a.read_length
            bases == IF a.fastq2 = NoMate THEN single ELSE 2 * single
        IN  /\ SameFraction(call.result[1],
                            <<4 * bases, 4 * a.approx_length>>)
            /\ (a.read_length = 100 /\ a.approx_length = 5000000
                    /\ Reads(a.fastq1) = 100000)
                  => SameFraction(call.result[1],
                         IF a.fastq2 = NoMate THEN <<2, 1>> ELSE <<4, 1>>)

\* the labels of the ranks from the given one on, species first
Walk == <<"S", "G", "F", "O", "C", "P">>

\* C34: the fallback label is the species label when it is non-empty;
\* otherwise the first non-empty label walking genus, family, order, class,
\* phylum, with "sp." appended only when the genus label is the one used.
C34_FallbackLabelWalksRanks ==
    Returned("tax_string") =>
        LET tax_d == call.args
            found == {n \in DOMAIN Walk : tax_d[Walk[n]][3] # <<>>}
            first == CHOOSE n \in found : \A m \in found : n <= m
        IN  found # {} =>
                call.result[1] =
                    IF Walk[first] = "G"
                    THEN tax_d["G"][3] \o <<"s", "p", ".">>
                    ELSE tax_d[Walk[first]][3]

\* the downsampling stage was called without the DOWNSAMPLED marker
Rerun_downsample ==
    Returned("downsample") /\ DOWNSAMPLED \notin call.args.status_file

\* the coverage that the stage computed
Coverage ==
    get_coverage(ave_read_len, genome_length, call.args.fastq1,
                 call.args.fastq2)

\* the fraction is maxcov / coverage
Exact(fraction) ==
    SameFraction(fraction, <<call.args.maxcoverage * Coverage[2], Coverage[1]>>)

\* the fraction, in thousandths, is one nearest to maxcov / coverage
Rounded(fraction) ==
    LET d == fraction[1] * Coverage[1]
                 - 1000 * call.args.maxcoverage * Coverage[2]
    IN  /\ fraction[2] = 1000
        /\ 2 * (IF d < 0 THEN 0 - d ELSE d) <= Coverage[1]

\* the three cases of a rerun, for a reading of "the fraction"
Cases(Fraction(_)) ==
    Rerun_downsample =>
        LET res == call.result[1]
            marked == DOWNSAMPLED \in res.status_file
        IN  IF Below(Coverage, mincov)
            THEN /\ res.raised = "coverageError"
                 /\ res.commands = <<>>
                 /\ ~marked
            ELSE IF Above(Coverage, call.args.maxcoverage)
            THEN /\ res.commands # <<>>
                 /\ \A n \in DOMAIN res.commands : Fraction(res.commands[n])
                 /\ res.raised = None => res.paths = "downsampled"
                 /\ marked => res.raised = None
            ELSE /\ res.commands = <<>>
                 /\ res.raised = None
                 /\ res.paths = "input"

\* C35 as stated: when downsampling is (re)run, coverage strictly below
\* mincov raises coverageError and runs no tool; coverage strictly above
\* maxcov runs the tool with the fraction maxcov / coverage and returns the
\* downsampled paths; otherwise no tool runs and the input paths are
\* returned; DOWNSAMPLED is set only in the last two cases.
C35_Original == Cases(Exact)

\* C35: as above, the fraction being maxcov / coverage rounded to three
\* decimal places.
C35_DownsampleCases == Cases(Rounded)

C35_Witness ==
    /\ Rerun_downsample
    /\ Above(Coverage, call.args.maxcoverage)
    /\ call.result[1].raised = None
    /\ ~Exact(call.result[1].commands[1])
    /\ DOWNSAMPLED \in call.result[1].status_file

\* the report without the lines of rank codes that are not reported
OfRanks(inf) == SelectSeq(inf, LAMBDA line : line[4] \in Ranks)

\* C36: parse_kraken_report returns, for each rank code, the (percentage,
\* taxon id, label) of the line of that rank with the highest percentage (the
\* first such line on ties), and the default entry with an empty label for a
\* rank with no line of positive percentage; lines of other rank codes never
\* change the result.
C36_TopHitOfEachRank ==
    (Returned("parse_kraken_report") /\ call.result[1].raised = None) =>
        LET inf == call.args
            tax == call.result[1].tax
            hits(r) == {n \in DOMAIN inf :
                           inf[n][4] = r /\ inf[n][1] > 0}
            top(r) == CHOOSE n \in hits(r) : \A m \in hits(r) :
                          \/ inf[m][1] < inf[n][1]
                          \/ inf[m][1] = inf[n][1] /\ n <= m
        IN  /\ DOMAIN tax = Ranks
            /\ \A r \in Ranks :
                  tax[r] = IF hits(r) = {} THEN <<0, "-", <<>>>>
                           ELSE <<inf[top(r)][1], inf[top(r)][5],
                                  Name(inf[top(r)][5])>>
            /\ call.result[1] = parse_kraken_report(OfRanks(inf))

C36_Witness ==
    /\ Returned("parse_kraken_report")
    /\ call.result[1].raised = None
    /\ Len(call.args) = 3
    /\ call.args[1][4] = "S1"
    /\ call.args[2][4] = "S" /\ call.args[3][4] = "S"
    /\ call.args[2][1] = 9000 /\ call.args[3][1] = 9000
    /\ call.args[2][5] = "561" /\ call.args[3][5] = "562"
    /\ call.result[1].tax["S"] = <<9000, "561", <<"E">>>>
    /\ call.result[1].tax["G"] = <<0, "-", <<>>>>

\* the accessions that the ledger of this invocation reports PASS
Passed ==
    {SUMMARY[n].stage : n \in {m \in DOMAIN SUMMARY :
                                   SUMMARY[m].status = "PASS"}} \ {"global"}

\* C37: after an invocation that found a tracked argument changed and was
\* stopped before it reached an accession, the next invocation with the same
\* command line still invalidates the accession: no accession is reported
\* PASS on an assembly made under the old value of the argument.
C37_NoPassOnOldAssembly ==
    pc # "idle" =>
        \A a \in Passed : assembled_with[a] = <<tracked(args)>>

\* the accessions that have a job in riboSeed_jobs
WithJob == {riboSeed_jobs[n].acc : n \in DOMAIN riboSeed_jobs}

\* C38: the reconciliation of a job after the pool changes only the status
\* file of the job's own accession: it adds no marker to, and removes none
\* from, the status file of another accession that has no job or whose
\* contigs are missing.
C38_ReconciliationKeepsOtherItems ==
    [][(pc = "outcome" /\ v <= Len(riboSeed_jobs) /\ v' = v + 1) =>
          \A a \in Batch \ {riboSeed_jobs[v].acc} :
              (a \notin WithJob \/ ~contigs[a]) => status'[a] = status[a]]_vars

\* the stage of the marker fails for the accession in this invocation, if it
\* is run: kraken2 exits non-zero or leaves an empty report, sickle fails,
\* the coverage is under --mincov, or seqtk fails when it is called
StageFails(marker, a) ==
    CASE marker = TAXONOMY -> env[a] \in {"kr", "krEmpty"}
      [] marker = TRIMMED -> env[a] = "sickle"
      [] marker = DOWNSAMPLED ->
            \/ env[a] = "covLow"
            \/ env[a] = "seqtk" /\ args.maxcov < 75

\* C39: TAXONOMY, TRIMMED and DOWNSAMPLED are each added to the status file
\* of an accession only after the operation of the stage returned without
\* error, an empty report of a classifier that exited zero being an error
\* (or the marker was there already): a stage that failed leaves its marker
\* absent when the invocation is over, and the next one runs it again.
C39_MarkerOnlyAfterStageSucceeded ==
    pc = "exit" =>
        \A a \in Batch : \A marker \in {TAXONOMY, TRIMMED, DOWNSAMPLED} :
            (marker \in status[a] /\ marker \notin at_start.status[a])
                => ~StageFails(marker, a)

====
